---------------------------- MODULE Spec2Model ----------------------------
(***************************************************************************)
(* Model of pyart/util/circular_stats.py and of the example gallery of     *)
(* doc/sphinxext/gen_rst.py.                                               *)
(*                                                                         *)
(* circular_stats.  Every function of the module is a pure function of its *)
(* arguments, so the state machine is: Init draws one call (the operation  *)
(* and its arguments) from bounded sets, the operation's action applies    *)
(* the function and stores what it returned (or that it raised).           *)
(* SpecThreads runs the functions statement by statement, from two threads *)
(* that pass the same arrays.                                              *)
(*                                                                         *)
(* gen_rst.  SpecFile is a sequence of calls of generate_file_rst on the   *)
(* examples of a directory, SpecDir a sequence of calls of                 *)
(* generate_dir_rst; time passes and sources are edited between the        *)
(* calls, and what an executed example does (the figures it leaves, the    *)
(* exception it raises) is chosen by the environment.  SpecResolver is a   *)
(* sequence of resolve calls on one SphinxDocLinkResolver, whose page      *)
(* fetches succeed or fail.  A file name is the sequence of its            *)
(* characters, a dotted name the sequence of its parts.  SpecSort and      *)
(* SpecThumb are single calls of line_count_sort, extract_line_count and   *)
(* make_thumbnail.  SpecParse is a call of _select_block, or a call of     *)
(* _parse_dict_recursive run iteration by iteration with the stack of its  *)
(* recursive calls in frames.                                              *)
(*                                                                         *)
(* Numbers.  Floating point is modelled by exact arithmetic in the field   *)
(* Q(sqrt 2): a number is a record [a, b, d] standing for                  *)
(* (a + b*sqrt(2)) / d, kept in lowest terms with d > 0, so that equal     *)
(* numbers are equal records.  Rounding error is outside the model; the    *)
(* IEEE special values that the code can produce (infinities, NaN) are     *)
(* modelled where the code produces them.                                  *)
(*                                                                         *)
(* Angles.  An input angle in radians is an integer q standing for         *)
(* q * pi/4; its cosine and sine are then numbers of Q(sqrt 2).  A value   *)
(* returned through arctan2 is a record [w, s, t] standing for             *)
(* w + s * arctan(t) / (pi/4), with 0 <= t < 1: w is the part that lies on *)
(* the grid, s the size of one grid step in the unit of the value (1 for   *)
(* radians counted in quarter-pi, 45 for degrees) and t the tangent of the *)
(* rest.  Degrees are plain integers.                                      *)
(***************************************************************************)
EXTENDS Integers, Sequences, FiniteSets, TLC

VARIABLES op, args, pc, ret, heap, frames,
          clock, files, process, tree, index, last, fresh,
          link_cache, page_cache, lookups

vars == <<op, args, pc, ret, heap, frames,
          clock, files, process, tree, index, last, fresh,
          link_cache, page_cache, lookups>>

\* The variables of a single call of circular_stats, and those of calls
\* made by several threads on arrays that they share (SpecThreads).
callVars == <<op, args, pc, ret>>
threadVars == <<heap, frames>>

\* The variables of doc/sphinxext/gen_rst.py: the example gallery (the
\* time, the files of the examples, the process state, the directories,
\* the index file, and what the latest call did) and a link resolver.
galleryVars == <<clock, files, process, tree, index, last, fresh>>
resolverVars == <<link_cache, page_cache, lookups>>

(***************************************************************************)
(* Bounds of the model.                                                    *)
(***************************************************************************)
MaxRows == 2
MaxCols == 3
MaxCells == 6
MaxVal == 3
MaxNvalidMin == 2

\* The datum stored under a masked element of a generated field.
MaskedFill == 9

(***************************************************************************)
(* Exact arithmetic in Q(sqrt 2).                                          *)
(***************************************************************************)
Abs(n) == IF n < 0 THEN -n ELSE n

RECURSIVE GCD(_, _)
GCD(m, n) == IF n = 0 THEN m ELSE GCD(n, m % n)

\* (a + b*sqrt 2)/d in lowest terms with a positive denominator (d # 0).
Num(a, b, d) ==
    LET g == GCD(GCD(Abs(a), Abs(b)), Abs(d))
        sg == IF d < 0 THEN -g ELSE g
    IN  [a |-> a \div sg, b |-> b \div sg, d |-> d \div sg]

IntNum(n) == Num(n, 0, 1)
Zero == IntNum(0)
One == IntNum(1)

QAdd(x, y) == Num(x.a * y.d + y.a * x.d, x.b * y.d + y.b * x.d, x.d * y.d)
QNeg(x) == Num(-x.a, -x.b, x.d)
QSub(x, y) == QAdd(x, QNeg(y))
QMul(x, y) == Num(x.a * y.a + 2 * x.b * y.b, x.a * y.b + x.b * y.a, x.d * y.d)
QDivInt(x, n) == Num(x.a, x.b, x.d * n)

\* 1/x for x # 0: d*(a - b*sqrt 2) / (a^2 - 2*b^2).
QInv(x) == Num(x.d * x.a, -(x.d * x.b), x.a * x.a - 2 * x.b * x.b)
QDiv(x, y) == QMul(x, QInv(y))

\* The sign of a + b*sqrt 2 (d > 0): -1, 0 or 1.
QSign(x) ==
    IF x.a = 0 /\ x.b = 0 THEN 0
    ELSE IF x.a >= 0 /\ x.b >= 0 THEN 1
    ELSE IF x.a <= 0 /\ x.b <= 0 THEN -1
    ELSE IF x.a > 0 THEN (IF x.a * x.a > 2 * x.b * x.b THEN 1 ELSE -1)
    ELSE (IF 2 * x.b * x.b > x.a * x.a THEN 1 ELSE -1)

QLess(x, y) == QSign(QSub(x, y)) < 0
QLeq(x, y) == QSign(QSub(x, y)) <= 0

RECURSIVE SumNums(_)
SumNums(s) == IF s = <<>> THEN Zero ELSE QAdd(Head(s), SumNums(Tail(s)))

\* np.mean of a non-empty one-dimensional array of numbers.
NpMean(s) == QDivInt(SumNums(s), Len(s))

(***************************************************************************)
(* Masked arrays.  An element is [v, m]: the datum and its mask bit.  A    *)
(* two-dimensional field is a sequence of rows of equal length.            *)
(***************************************************************************)
Masked == [v |-> Zero, m |-> TRUE]
Plain(x) == [v |-> x, m |-> FALSE]

NRows(field) == Len(field)
NCols(field) == Len(field[1])

\* The elements of the field that are reduced into output position i.
Lane(field, axis, i) ==
    IF axis = 0 THEN [r \in 1..NRows(field) |-> field[r][i]]
    ELSE field[i]

\* The length of the result of a reduction along axis.
OutLen(field, axis) == IF axis = 0 THEN NCols(field) ELSE NRows(field)

RECURSIVE ValidData(_)
ValidData(lane) ==
    IF lane = <<>> THEN <<>>
    ELSE IF Head(lane).m THEN ValidData(Tail(lane))
    ELSE <<IntNum(Head(lane).v)>> \o ValidData(Tail(lane))

\* The data of a sequence of numbers sorted in non-decreasing order.
RECURSIVE Insert(_, _)
Insert(x, s) ==
    IF s = <<>> THEN <<x>>
    ELSE IF QLeq(x, Head(s)) THEN <<x>> \o s
    ELSE <<Head(s)>> \o Insert(x, Tail(s))

RECURSIVE SortNums(_)
SortNums(s) == IF s = <<>> THEN <<>> ELSE Insert(Head(s), SortNums(Tail(s)))

\* np.ma.mean(field, axis=axis): the mean of the non-masked elements of
\* each lane, masked where the lane has none.
MaMean(field, axis) ==
    [i \in 1..OutLen(field, axis) |->
        LET data == ValidData(Lane(field, axis, i))
        IN  IF data = <<>> THEN Masked ELSE Plain(NpMean(data))]

\* np.ma.median(field, axis=axis): the middle of the sorted non-masked
\* elements of each lane (the mean of the two middle ones when their
\* number is even), masked where the lane has none.
MedianOf(data) ==
    LET s == SortNums(data)
        n == Len(s)
    IN  IF n % 2 = 1 THEN s[(n + 1) \div 2]
        ELSE QDivInt(QAdd(s[n \div 2], s[n \div 2 + 1]), 2)

MaMedianBug(field, axis) ==
    [i \in 1..OutLen(field, axis) |->
        LET data == ValidData(Lane(field, axis, i))
        IN  IF data = <<>> THEN Masked
            ELSE Plain(SortNums(data)[(Len(data) + 1) \div 2])]

MaMedian(field, axis) ==
    [i \in 1..OutLen(field, axis) |->
        LET data == ValidData(Lane(field, axis, i))
        IN  IF data = <<>> THEN Masked ELSE Plain(MedianOf(data))]

\* valid = np.logical_not(np.ma.getmaskarray(field))
\* nvalid = np.sum(valid, axis=0, dtype=int): the reduction is along axis 0
\* whatever the axis argument is.
CountValid(lane) == Len(ValidData(lane))

NValid(field) == [c \in 1..NCols(field) |-> CountValid(Lane(field, 0, c))]

\* values[nvalid < nvalid_min] = np.ma.masked, for a boolean index of the
\* length of values.
MaskWhereBug(values, nvalid, nvalid_min) == values

MaskWhere(values, nvalid, nvalid_min) ==
    [i \in 1..Len(values) |->
        IF nvalid[i] < nvalid_min THEN [values[i] EXCEPT !.m = TRUE]
        ELSE values[i]]

\* compute_directional_stats(field, avg_type, nvalid_min, axis).  A boolean
\* index whose length differs from the length of the indexed array makes
\* numpy raise IndexError.
compute_directional_stats(field, avg_type, nvalid_min, axis) ==
    LET values == IF avg_type = "mean" THEN MaMean(field, axis)
                  ELSE MaMedian(field, axis)
        nvalid == NValid(field)
    IN  IF Len(nvalid) # Len(values)
        THEN [raised |-> "IndexError", values |-> <<>>, nvalid |-> <<>>]
        ELSE [raised |-> "none",
              values |-> MaskWhere(values, nvalid, nvalid_min),
              nvalid |-> nvalid]

(***************************************************************************)
(* The calls of compute_directional_stats.                                 *)
(***************************************************************************)
Elems == [v : 1..MaxVal, m : {FALSE}] \cup {[v |-> MaskedFill, m |-> TRUE]}

Shapes == {sh \in (1..MaxRows) \X (1..MaxCols) : sh[1] * sh[2] <= MaxCells}

Fields == UNION {[1..sh[1] -> [1..sh[2] -> Elems]] : sh \in Shapes}

NoRet == [raised |-> "pending"]

\* No thread is calling and no array is shared.
NoThreads == heap = <<>> /\ frames = <<>>

\* No gallery is built and no link is resolved.
NoGallery ==
    /\ clock = 0 /\ files = <<>> /\ process = <<>> /\ tree = <<>>
    /\ index = <<>> /\ last = <<>> /\ fresh = <<>>

NoResolver == link_cache = <<>> /\ page_cache = <<>> /\ lookups = <<>>

\* No single call of circular_stats is made.
NoCall == op = "none" /\ args = <<>> /\ pc = "none" /\ ret = NoRet

InitStats ==
    /\ NoThreads
    /\ NoGallery /\ NoResolver
    /\ op = "compute_directional_stats"
    /\ \E f \in Fields, t \in {"mean", "median"}, n \in 0..MaxNvalidMin,
          ax \in {0, 1} :
          args = [field |-> f, avg_type |-> t, nvalid_min |-> n, axis |-> ax]
    /\ pc = "call"
    /\ ret = NoRet

ComputeDirectionalStats ==
    /\ pc = "call"
    /\ op = "compute_directional_stats"
    /\ ret' = compute_directional_stats(args.field, args.avg_type,
                                        args.nvalid_min, args.axis)
    /\ pc' = "done"
    /\ UNCHANGED <<op, args, threadVars, galleryVars, resolverVars>>

NextStats == ComputeDirectionalStats

SpecStats == InitStats /\ [][NextStats]_vars

StatsDone == op = "compute_directional_stats" /\ pc = "done"
StatsReturned == StatsDone /\ ret.raised = "none"

(***************************************************************************)
(* Trigonometry on the grid of multiples of pi/4.                          *)
(***************************************************************************)
\* np.pi, counted in grid steps of pi/4.
Pi == 4

HalfRoot2 == Num(0, 1, 2)

\* np.cos and np.sin of the angle q * pi/4.
Cos(q) ==
    LET k == q % (2 * Pi)
    IN  CASE k = 0 -> One
          [] k \in {1, 7} -> HalfRoot2
          [] k \in {2, 6} -> Zero
          [] k \in {3, 5} -> QNeg(HalfRoot2)
          [] k = 4 -> QNeg(One)

Sin(q) == Cos(q - 2)

\* The vector v = <<x, y>> turned by k * pi/4 (counter-clockwise for
\* k > 0), up to a positive factor.
RECURSIVE RotBy(_, _)
RotBy(v, k) ==
    IF k = 0 THEN v
    ELSE IF k > 0 THEN RotBy(<<QSub(v[1], v[2]), QAdd(v[1], v[2])>>, k - 1)
    ELSE RotBy(<<QAdd(v[1], v[2]), QSub(v[2], v[1])>>, k + 1)

\* A vector whose direction lies in [0, pi/4).
InFirstOctant(v) ==
    QSign(v[1]) > 0 /\ QSign(v[2]) >= 0 /\ QLess(v[2], v[1])

\* A value in radians: w grid steps of pi/4 plus arctan(t), 0 <= t < 1.
Rad(w, t) == [w |-> IntNum(w), s |-> One, t |-> t]

\* np.arctan2(y, x): the angle in [-pi, pi] of the vector <<x, y>>, with
\* the sign of y; arctan2(0, 0) = 0 and arctan2(0, x) = pi for x < 0.
\* (IEEE arctan2 returns -pi only for y = -0.0 with x < 0; a mean of sines is
\* -0.0 only when every angle is -0.0, and then x = 1.)
Arctan2(y, x) ==
    IF QSign(y) = 0 /\ QSign(x) = 0 THEN Rad(0, Zero)
    ELSE LET octants == IF QSign(y) >= 0 THEN 0..Pi ELSE (-Pi)..(-1)
             n == CHOOSE k \in octants : InFirstOctant(RotBy(<<x, y>>, -k))
             r == RotBy(<<x, y>>, -n)
         IN  Rad(n, QDiv(r[2], r[1]))

\* np.deg2rad of a number of degrees that lies on the grid, and np.rad2deg
\* of a value in radians.
Deg2Rad(d) == (d * Pi) \div 180

\* x * half_width / np.pi for a value x in radians.
ScaleFromRad(x, half_width) ==
    [w |-> QMul(QDivInt(x.w, Pi), half_width),
     s |-> QMul(QDivInt(x.s, Pi), half_width),
     t |-> x.t]

Rad2Deg(x) == ScaleFromRad(x, IntNum(180))

\* x + c for a value x and a number c.
Shift(x, c) == [x EXCEPT !.w = QAdd(@, c)]

CosAll(angles) == [i \in 1..Len(angles) |-> Cos(angles[i])]
SinAll(angles) == [i \in 1..Len(angles) |-> Sin(angles[i])]

(***************************************************************************)
(* The circular statistics.                                                *)
(***************************************************************************)
\* mean_of_two_angles(angles1, angles2), element by element.
mean_of_two_anglesBug(angles1, angles2) ==
    [i \in 1..Len(angles1) |->
        LET x == QDivInt(QAdd(Cos(angles1[i]), Cos(angles2[i])), 2)
            y == QDivInt(QSub(Sin(angles1[i]), Sin(angles2[i])), 2)
        IN  Arctan2(y, x)]

mean_of_two_angles(angles1, angles2) ==
    [i \in 1..Len(angles1) |->
        LET x == QDivInt(QAdd(Cos(angles1[i]), Cos(angles2[i])), 2)
            y == QDivInt(QAdd(Sin(angles1[i]), Sin(angles2[i])), 2)
        IN  Arctan2(y, x)]

mean_of_two_angles_deg(angle1, angle2) ==
    LET r == mean_of_two_angles([i \in 1..Len(angle1) |-> Deg2Rad(angle1[i])],
                                [i \in 1..Len(angle2) |-> Deg2Rad(angle2[i])])
    IN  [i \in 1..Len(r) |-> Rad2Deg(r[i])]

\* angular_mean(angles)
angular_meanSwapped(angles) ==
    Arctan2(NpMean(CosAll(angles)), NpMean(SinAll(angles)))

angular_meanLinear(angles) ==
    LET total == SumNums([i \in 1..Len(angles) |-> IntNum(angles[i])])
        m == (total.a \div total.d) \div Len(angles)
    IN  Arctan2(Sin(m), Cos(m))

angular_mean(angles) ==
    LET x == CosAll(angles)
        y == SinAll(angles)
    IN  Arctan2(NpMean(y), NpMean(x))

\* The extended reals that angular_std computes with.  norm is kept as its
\* square; the logarithm and what follows keep the sign, the infinities and
\* NaN, and name a finite non-zero result by the square it came from:
\* a result [k |-> "pos", of |-> n2, scale |-> [c |-> c, p |-> p]] is
\* c * pi^p * sqrt(-ln(n2)).
UnitScale == [c |-> One, p |-> 0]
Ext(k, of) == [k |-> k, of |-> of, scale |-> UnitScale]

\* np.sqrt(m2) of a number m2 >= 0 that is a sum of squares.
NormOfSquare(m2) == IF m2 = Zero THEN Ext("zero", Zero) ELSE Ext("pos", m2)

\* np.log(norm): -inf at 0 (numpy warns and does not raise), 0 at 1.
NpLog(norm) ==
    IF norm.k = "zero" THEN Ext("ninf", Zero)
    ELSE IF norm.of = One THEN Ext("zero", Zero)
    ELSE IF QLess(norm.of, One) THEN Ext("neg", norm.of)
    ELSE Ext("pos", norm.of)

\* -2 * x
TimesMinusTwo(x) ==
    CASE x.k = "ninf" -> Ext("pinf", Zero)
      [] x.k = "zero" -> x
      [] x.k = "neg" -> Ext("pos", x.of)
      [] x.k = "pos" -> Ext("neg", x.of)

\* np.sqrt(x): NaN for x < 0 (numpy warns and does not raise).
NpSqrt(x) ==
    CASE x.k = "pinf" -> x
      [] x.k = "zero" -> x
      [] x.k = "pos" -> x
      [] x.k = "neg" -> Ext("nan", Zero)

\* angular_std(angles)
angular_stdSums(angles) ==
    LET x == SumNums(CosAll(angles))
        y == SumNums(SinAll(angles))
        norm == NormOfSquare(QAdd(QMul(x, x), QMul(y, y)))
    IN  NpSqrt(TimesMinusTwo(NpLog(norm)))

angular_stdChecked(angles) ==
    LET x == NpMean(CosAll(angles))
        y == NpMean(SinAll(angles))
        norm == NormOfSquare(QAdd(QMul(x, x), QMul(y, y)))
    IN  IF norm.k = "zero" THEN Ext("raised", Zero)
        ELSE NpSqrt(TimesMinusTwo(NpLog(norm)))

angular_std(angles) ==
    LET x == CosAll(angles)
        y == SinAll(angles)
        norm == NormOfSquare(QAdd(QMul(NpMean(x), NpMean(x)),
                                  QMul(NpMean(y), NpMean(y))))
    IN  NpSqrt(TimesMinusTwo(NpLog(norm)))

\* x * c / np.pi for an extended real x and a number c > 0.
ScalePerPi(x, c) ==
    IF x.k = "pos"
    THEN [x EXCEPT !.scale = [c |-> QMul(@.c, c), p |-> @.p - 1]]
    ELSE x

\* angular_mean_deg(angles) and angular_std_deg(angles); np.rad2deg(x) is
\* x * 180 / pi.
angular_mean_deg(angles) ==
    Rad2Deg(angular_mean([i \in 1..Len(angles) |-> Deg2Rad(angles[i])]))

angular_std_deg(angles) ==
    ScalePerPi(angular_std([i \in 1..Len(angles) |-> Deg2Rad(angles[i])]),
               IntNum(180))

\* The grid angle of r * np.pi for a ratio r that puts it on the grid.
TimesPi(r) == (r.a * Pi) \div r.d

\* a = (np.asarray(dist) - center) / (half_width) * np.pi
RemapClipped(dist, center, half_width) ==
    [i \in 1..Len(dist) |->
        LET q == TimesPi(QDiv(QSub(dist[i], center), half_width))
        IN  IF q > Pi THEN Pi ELSE IF q < -Pi THEN -Pi ELSE q]

Remap(dist, center, half_width) ==
    [i \in 1..Len(dist) |-> TimesPi(QDiv(QSub(dist[i], center), half_width))]

\* interval_mean(dist, interval_min, interval_max)
interval_meanNoShift(dist, interval_min, interval_max) ==
    LET half_width == QDivInt(QSub(interval_max, interval_min), 2)
        center == QAdd(interval_min, half_width)
        a == Remap(dist, center, half_width)
        a_mean == angular_mean(a)
    IN  ScaleFromRad(a_mean, half_width)

interval_mean(dist, interval_min, interval_max) ==
    LET half_width == QDivInt(QSub(interval_max, interval_min), 2)
        center == QAdd(interval_min, half_width)
        a == Remap(dist, center, half_width)
        a_mean == angular_mean(a)
    IN  Shift(ScaleFromRad(a_mean, half_width), center)

\* interval_std(dist, interval_min, interval_max)
interval_stdUnscaled(dist, interval_min, interval_max) ==
    LET half_width == QDivInt(QSub(interval_max, interval_min), 2)
        center == QAdd(interval_min, half_width)
        a == Remap(dist, center, half_width)
    IN  angular_std(a)

interval_std(dist, interval_min, interval_max) ==
    LET half_width == QDivInt(QSub(interval_max, interval_min), 2)
        center == QAdd(interval_min, half_width)
        a == Remap(dist, center, half_width)
        a_std == angular_std(a)
    IN  ScalePerPi(a_std, half_width)

(***************************************************************************)
(* The calls of the circular statistics.                                   *)
(***************************************************************************)
MaxAngle == 8
MaxDegSteps == 8
MaxLen == 2
MaxPairLen == 1
MaxTurns == 2

SeqsOf(S, n) == UNION {[1..k -> S] : k \in 1..n}

\* Angles in radians on the grid (PairGrid: one turn of them), and angles
\* in degrees on the grid, from -90 degrees to a full turn and beyond.
AngleGrid == (-MaxAngle)..MaxAngle
PairGrid == (-Pi)..Pi
DegGrid == {(q * 180) \div Pi : q \in (-2)..MaxDegSteps}

\* Circular intervals <<interval_min, interval_max>>, and the values that
\* the remapping of an interval puts on the grid (values up to an eighth
\* of the period outside the interval included).  The interval (-pi, pi) holds radians, which are
\* counted in grid steps like the angles of angular_mean and its results.
Intervals ==
    {<<IntNum(0), IntNum(360)>>, <<IntNum(-180), IntNum(180)>>,
     <<IntNum(0), IntNum(24)>>, <<IntNum(-5), IntNum(5)>>,
     <<IntNum(-Pi), IntNum(Pi)>>}

DistGrid(iv) ==
    LET half_width == QDivInt(QSub(iv[2], iv[1]), 2)
        center == QAdd(iv[1], half_width)
    IN  {QAdd(center, QMul(Num(q, 0, Pi), half_width)) :
            q \in (-Pi - 1)..(Pi + 1)}

Returned(x) == [raised |-> "none", value |-> x]

InitCirc ==
    /\ NoThreads
    /\ NoGallery /\ NoResolver
    /\ pc = "call"
    /\ ret = NoRet
    /\ \/ /\ op \in {"angular_mean", "angular_std"}
          /\ \E a \in SeqsOf(AngleGrid, MaxLen) : args = [angles |-> a]
       \/ /\ op \in {"angular_mean_deg", "angular_std_deg"}
          /\ \E a \in SeqsOf(DegGrid, MaxLen) : args = [angles |-> a]
       \/ /\ op = "mean_of_two_angles"
          /\ \E n \in 1..MaxPairLen :
                \E a1 \in [1..n -> PairGrid], a2 \in [1..n -> PairGrid] :
                    args = [angles1 |-> a1, angles2 |-> a2]
       \/ /\ op = "mean_of_two_angles_deg"
          /\ \E n \in 1..MaxPairLen :
                \E a1 \in [1..n -> DegGrid], a2 \in [1..n -> DegGrid] :
                    args = [angle1 |-> a1, angle2 |-> a2]
       \/ /\ op \in {"interval_mean", "interval_std"}
          /\ \E iv \in Intervals :
                \E d \in SeqsOf(DistGrid(iv), MaxLen) :
                    args = [dist |-> d, interval_min |-> iv[1],
                            interval_max |-> iv[2]]

MeanOfTwoAngles ==
    /\ pc = "call"
    /\ op = "mean_of_two_angles"
    /\ ret' = Returned(mean_of_two_angles(args.angles1, args.angles2))
    /\ pc' = "done"
    /\ UNCHANGED <<op, args, threadVars, galleryVars, resolverVars>>

MeanOfTwoAnglesDeg ==
    /\ pc = "call"
    /\ op = "mean_of_two_angles_deg"
    /\ ret' = Returned(mean_of_two_angles_deg(args.angle1, args.angle2))
    /\ pc' = "done"
    /\ UNCHANGED <<op, args, threadVars, galleryVars, resolverVars>>

AngularMean ==
    /\ pc = "call"
    /\ op = "angular_mean"
    /\ ret' = Returned(angular_mean(args.angles))
    /\ pc' = "done"
    /\ UNCHANGED <<op, args, threadVars, galleryVars, resolverVars>>

AngularStd ==
    /\ pc = "call"
    /\ op = "angular_std"
    /\ ret' = Returned(angular_std(args.angles))
    /\ pc' = "done"
    /\ UNCHANGED <<op, args, threadVars, galleryVars, resolverVars>>

AngularMeanDeg ==
    /\ pc = "call"
    /\ op = "angular_mean_deg"
    /\ ret' = Returned(angular_mean_deg(args.angles))
    /\ pc' = "done"
    /\ UNCHANGED <<op, args, threadVars, galleryVars, resolverVars>>

AngularStdDeg ==
    /\ pc = "call"
    /\ op = "angular_std_deg"
    /\ ret' = Returned(angular_std_deg(args.angles))
    /\ pc' = "done"
    /\ UNCHANGED <<op, args, threadVars, galleryVars, resolverVars>>

IntervalMean ==
    /\ pc = "call"
    /\ op = "interval_mean"
    /\ ret' = Returned(interval_mean(args.dist, args.interval_min,
                              args.interval_max))
    /\ pc' = "done"
    /\ UNCHANGED <<op, args, threadVars, galleryVars, resolverVars>>

IntervalStd ==
    /\ pc = "call"
    /\ op = "interval_std"
    /\ ret' = Returned(interval_std(args.dist, args.interval_min,
                             args.interval_max))
    /\ pc' = "done"
    /\ UNCHANGED <<op, args, threadVars, galleryVars, resolverVars>>

NextCirc ==
    \/ MeanOfTwoAngles
    \/ MeanOfTwoAnglesDeg
    \/ AngularMean
    \/ AngularStd
    \/ AngularMeanDeg
    \/ AngularStdDeg
    \/ IntervalMean
    \/ IntervalStd

SpecCirc == InitCirc /\ [][NextCirc]_vars

Done(name) == op = name /\ pc = "done"

(***************************************************************************)
(* Calls made by two threads on arrays of their caller.  The heap maps the *)
(* identity of an array to its contents; a function works on its argument  *)
(* through the identity it was given, every numpy function that returns an *)
(* array allocates it, and item assignment writes into the array that the  *)
(* name is bound to.  A thread takes one statement at a time.              *)
(***************************************************************************)
Threads == {"t1", "t2"}

CallerField == <<"caller", "field">>
CallerDist == <<"caller", "dist">>

\* The array that a numpy function called by thread t returns and binds to
\* name: a new array, not the array `from` that it was computed from.
NewArrayAliased(t, name, from) == from

NewArray(t, name, from) == <<t, name>>

\* heap with contents stored under id.
Store(id, contents) == (id :> contents) @@ heap

\* Fields and distributions (whole numbers: quarter-pi steps for the
\* radian functions, degrees for the others) of the caller.
CallerFields ==
    {<<<<[v |-> 1, m |-> FALSE], [v |-> MaskedFill, m |-> TRUE]>>,
       <<[v |-> 2, m |-> FALSE], [v |-> 3, m |-> FALSE]>>>>,
     <<<<[v |-> 1, m |-> FALSE], [v |-> 2, m |-> FALSE]>>>>,
     <<<<[v |-> MaskedFill, m |-> TRUE]>>, <<[v |-> 2, m |-> FALSE]>>>>}

CallerDists == {<<90>>, <<270, 45>>}

StatsCalls ==
    {[op |-> "compute_directional_stats",
      args |-> [field |-> CallerField, avg_type |-> t, nvalid_min |-> n,
                axis |-> ax]] :
        t \in {"mean", "median"}, n \in 0..MaxNvalidMin, ax \in {0, 1}}

CircOps ==
    {"mean_of_two_angles", "mean_of_two_angles_deg", "angular_mean",
     "angular_std", "angular_mean_deg", "angular_std_deg", "interval_mean",
     "interval_std"}

CircCalls ==
    {[op |-> o,
      args |-> [dist |-> CallerDist, dist2 |-> CallerDist,
                interval_min |-> IntNum(0), interval_max |-> IntNum(360)]] :
        o \in CircOps}

InDegrees(o) ==
    o \in {"mean_of_two_angles_deg", "angular_mean_deg", "angular_std_deg"}
OnInterval(o) == o \in {"interval_mean", "interval_std"}
OfTwo(o) == o \in {"mean_of_two_angles", "mean_of_two_angles_deg"}
IsStd(o) == o \in {"angular_std", "angular_std_deg", "interval_std"}

\* The frame of a call that starts: the function's first statement, no
\* local name bound.
Entry(call) ==
    [op |-> call.op, args |-> call.args,
     pc |-> IF call.op = "compute_directional_stats" THEN "average"
            ELSE IF InDegrees(call.op) \/ OnInterval(call.op) THEN "convert"
            ELSE "trig",
     loc |-> IF call.op = "compute_directional_stats" THEN <<>>
             ELSE [a |-> call.args.dist, a2 |-> call.args.dist2],
     ret |-> NoRet]

InitThreads ==
    /\ NoCall /\ NoGallery /\ NoResolver
    /\ \E f \in CallerFields, d \in CallerDists :
          heap = (CallerField :> f) @@ (CallerDist :> d)
    /\ \E c \in [Threads -> StatsCalls \cup CircCalls] :
          frames = [t \in Threads |-> Entry(c[t])]

\* Lines 52-55: values = np.ma.mean(field, axis=axis), or np.ma.median.
Average(t) ==
    LET f == frames[t]
        field == heap[f.args.field]
        id == NewArray(t, "values", f.args.field)
    IN  /\ f.pc = "average"
        /\ heap' = Store(id, IF f.args.avg_type = "mean"
                             THEN MaMean(field, f.args.axis)
                             ELSE MaMedian(field, f.args.axis))
        /\ frames' = [frames EXCEPT ![t].pc = "count",
                                    ![t].loc = ("values" :> id) @@ @]
        /\ UNCHANGED <<callVars, galleryVars, resolverVars>>

\* Lines 58-59: valid = np.logical_not(np.ma.getmaskarray(field)) and
\* nvalid = np.sum(valid, axis=0, dtype=int).
CountValidPoints(t) ==
    LET f == frames[t]
        id == NewArray(t, "nvalid", f.args.field)
    IN  /\ f.pc = "count"
        /\ heap' = Store(id, NValid(heap[f.args.field]))
        /\ frames' = [frames EXCEPT ![t].pc = "mask",
                                    ![t].loc = ("nvalid" :> id) @@ @]
        /\ UNCHANGED <<callVars, galleryVars, resolverVars>>

\* Line 60: values[nvalid < nvalid_min] = np.ma.masked writes into the
\* array that values is bound to, or raises IndexError.
MaskBelow(t) ==
    LET f == frames[t]
        values == heap[f.loc.values]
        nvalid == heap[f.loc.nvalid]
    IN  /\ f.pc = "mask"
        /\ IF Len(nvalid) # Len(values)
           THEN /\ frames' = [frames EXCEPT ![t].pc = "done",
                                  ![t].ret = [raised |-> "IndexError"]]
                /\ UNCHANGED heap
           ELSE /\ heap' = [heap EXCEPT ![f.loc.values] =
                                MaskWhere(values, nvalid, f.args.nvalid_min)]
                /\ frames' = [frames EXCEPT ![t].pc = "return"]
        /\ UNCHANGED <<callVars, galleryVars, resolverVars>>

\* Line 62: return values, nvalid (the arrays themselves).
ReturnStats(t) ==
    LET f == frames[t]
    IN  /\ f.pc = "return"
        /\ f.op = "compute_directional_stats"
        /\ frames' = [frames EXCEPT ![t].pc = "done",
                          ![t].ret = [raised |-> "none",
                                      values |-> f.loc.values,
                                      nvalid |-> f.loc.nvalid]]
        /\ UNCHANGED <<heap, callVars, galleryVars, resolverVars>>

\* half_width and center of the interval of a call (lines 211-212).
HalfWidth(a) == QDivInt(QSub(a.interval_max, a.interval_min), 2)
Center(a) == QAdd(a.interval_min, HalfWidth(a))

\* The numbers of an array of whole numbers.
AsNums(dist) == [i \in 1..Len(dist) |-> IntNum(dist[i])]

\* np.deg2rad(angles) (lines 106-107, 168, 186) and
\* a = (np.asarray(dist) - center) / (half_width) * np.pi (lines 213, 244):
\* the angles in radians are a new array.
Converted(o, a, dist) ==
    IF InDegrees(o) THEN [i \in 1..Len(dist) |-> Deg2Rad(dist[i])]
    ELSE Remap(AsNums(dist), Center(a), HalfWidth(a))

Convert(t) ==
    LET f == frames[t]
        ida == NewArray(t, "a", f.args.dist)
        ida2 == IF OfTwo(f.op) THEN NewArray(t, "a2", f.args.dist2) ELSE ida
    IN  /\ f.pc = "convert"
        /\ heap' = (ida :> Converted(f.op, f.args, heap[f.args.dist]))
                   @@ (ida2 :> Converted(f.op, f.args, heap[f.args.dist2]))
                   @@ heap
        /\ frames' = [frames EXCEPT ![t].pc = "trig",
                                    ![t].loc = [a |-> ida, a2 |-> ida2]]
        /\ UNCHANGED <<callVars, galleryVars, resolverVars>>

\* x = np.cos(angles) and y = np.sin(angles) (lines 126-127, 147-148), or
\* the halved sums of two cosines and two sines (lines 84-85).
Trig(t) ==
    LET f == frames[t]
        a == heap[f.loc.a]
        a2 == heap[f.loc.a2]
        idx == NewArray(t, "x", f.loc.a)
        idy == NewArray(t, "y", f.loc.a)
        x == IF OfTwo(f.op)
             THEN [i \in 1..Len(a) |-> QDivInt(QAdd(Cos(a[i]), Cos(a2[i])), 2)]
             ELSE CosAll(a)
        y == IF OfTwo(f.op)
             THEN [i \in 1..Len(a) |-> QDivInt(QAdd(Sin(a[i]), Sin(a2[i])), 2)]
             ELSE SinAll(a)
    IN  /\ f.pc = "trig"
        /\ heap' = (idx :> x) @@ (idy :> y) @@ heap
        /\ frames' = [frames EXCEPT ![t].pc = "return",
                          ![t].loc = ("x" :> idx) @@ ("y" :> idy) @@ @]
        /\ UNCHANGED <<callVars, galleryVars, resolverVars>>

\* The value computed from x and y (lines 86, 128, 149-150) and converted
\* back (lines 107, 168, 186, 217, 248).
MeanBack(o, a, r) ==
    IF InDegrees(o) THEN Rad2Deg(r)
    ELSE IF OnInterval(o) THEN Shift(ScaleFromRad(r, HalfWidth(a)), Center(a))
    ELSE r

StdBack(o, a, r) ==
    IF InDegrees(o) THEN ScalePerPi(r, IntNum(180))
    ELSE IF OnInterval(o) THEN ScalePerPi(r, HalfWidth(a))
    ELSE r

Computed(o, a, x, y) ==
    IF OfTwo(o)
    THEN [i \in 1..Len(x) |-> MeanBack(o, a, Arctan2(y[i], x[i]))]
    ELSE IF IsStd(o)
    THEN StdBack(o, a,
             NpSqrt(TimesMinusTwo(NpLog(NormOfSquare(
                 QAdd(QMul(NpMean(x), NpMean(x)),
                      QMul(NpMean(y), NpMean(y))))))))
    ELSE MeanBack(o, a, Arctan2(NpMean(y), NpMean(x)))

ReturnCirc(t) ==
    LET f == frames[t]
    IN  /\ f.pc = "return"
        /\ f.op \in CircOps
        /\ frames' = [frames EXCEPT ![t].pc = "done",
                          ![t].ret = Returned(Computed(f.op, f.args,
                                         heap[f.loc.x], heap[f.loc.y]))]
        /\ UNCHANGED <<heap, callVars, galleryVars, resolverVars>>

NextThreads ==
    \E t \in Threads :
        \/ Average(t)
        \/ CountValidPoints(t)
        \/ MaskBelow(t)
        \/ ReturnStats(t)
        \/ Convert(t)
        \/ Trig(t)
        \/ ReturnCirc(t)

SpecThreads == InitThreads /\ [][NextThreads]_vars

(***************************************************************************)
(* doc/sphinxext/gen_rst.py: the example gallery.                          *)
(*                                                                         *)
(* A file name is a sequence of characters.  The files that belong to an   *)
(* example are a record: src, the modification time of the source file;    *)
(* copied, whether the copy in the target directory exists; images, a      *)
(* function from the numbers n of the existing image files <name>_n.png to *)
(* their modification times; stdout_txt and time_txt, whether the two      *)
(* cache files exist; thumb, the thumbnail; rst, the page last written.    *)
(* The order of a figure list is outside the model: it is a set.           *)
(***************************************************************************)
MaxTime == 1
MaxCalls == 2

startswith(s, prefix) ==
    Len(s) >= Len(prefix) /\ SubSeq(s, 1, Len(prefix)) = prefix

endswith(s, suffix) ==
    Len(s) >= Len(suffix)
        /\ SubSeq(s, Len(s) - Len(suffix) + 1, Len(s)) = suffix

\* plot_a.py and replot.py
PlotA == <<"p", "l", "o", "t", "_", "a", ".", "p", "y">>
Replot == <<"r", "e", "p", "l", "o", "t", ".", "p", "y">>

NoRst == [template |-> "none", figure_list |-> {}]

NewExample ==
    [src |-> 0, copied |-> FALSE, images |-> <<>>, stdout_txt |-> FALSE,
     time_txt |-> FALSE, thumb |-> "none", rst |-> NoRst]

\* The numbers of the figures that an example may leave open.
FigNums == {1, 2, 10}

\* What happens when an example is executed: where the try statement is
\* left (at "none": at its end; "chdir": os.chdir raises, line 848; "exec":
\* the example raises, line 853; "inspect": a statement of lines 858-943
\* raises; "save": plt.savefig raises, line 957), the kind of exception,
\* the figures open after the example and those saved before savefig
\* raised, and whether the example itself changes the working directory
\* and sys.stdout (which shows only if the try statement is left before
\* line 944).
NoRun ==
    [at |-> "none", kind |-> "none", figs |-> {}, saved |-> {},
     meddles |-> FALSE]

Runs ==
    {[at |-> "none", kind |-> "none", figs |-> F, saved |-> F, meddles |-> m] :
        F \in SUBSET FigNums, m \in BOOLEAN}
    \cup {[at |-> "chdir", kind |-> "Exception", figs |-> {}, saved |-> {},
           meddles |-> FALSE]}
    \cup {[at |-> "exec", kind |-> k, figs |-> {}, saved |-> {}, meddles |-> m] :
            k \in {"Exception", "SystemExit"}, m \in BOOLEAN}
    \cup {[at |-> "inspect", kind |-> "Exception", figs |-> {}, saved |-> {},
           meddles |-> m] : m \in BOOLEAN}
    \cup {r \in [at : {"save"}, kind : {"Exception"}, figs : SUBSET FigNums,
                   saved : SUBSET FigNums, meddles : {FALSE}] :
                r.saved \subseteq r.figs /\ r.saved # r.figs}

\* Lines 836-837: no first image, or one that is not newer than the source.
NeedsExecution(f) == 1 \notin DOMAIN f.images \/ f.images[1] <= f.src

\* Lines 959: the bare except clause catches every exception.
CaughtException(kind) == kind = "Exception"

Caught(kind) == TRUE

\* The process state where the try statement is left: os.chdir to the
\* source directory (848), sys.stdout = my_stdout (851), the example (853),
\* sys.stdout = orig_stdout (855), os.chdir(cwd) (944).
AtEndOfTry(p, src_dir, run) ==
    LET during == [cwd |-> IF run.meddles THEN "elsewhere" ELSE src_dir,
                   stdout |-> IF run.meddles THEN "script" ELSE "tee"]
    IN  CASE run.at = "chdir" -> p
          [] run.at = "exec" -> during
          [] run.at = "inspect" -> [during EXCEPT !.stdout = p.stdout]
          [] run.at \in {"save", "none"} -> p

\* Lines 964-966, the finally clause: os.chdir(cwd) and
\* sys.stdout = orig_stdout.
RestoreNothing(p, cwd, orig_stdout) == p

Restore(p, cwd, orig_stdout) == [cwd |-> cwd, stdout |-> orig_stdout]

\* Lines 839-966: the example is executed.  The cache files are written at
\* lines 942-943, the figures are saved after that.
TryExecute(f, p, now, src_dir, run) ==
    LET cached == run.at \in {"save", "none"}
    IN  [file |-> [f EXCEPT
                     !.images = [n \in DOMAIN f.images \cup run.saved |->
                                    IF n \in run.saved THEN now
                                    ELSE f.images[n]],
                     !.stdout_txt = @ \/ cached,
                     !.time_txt = @ \/ cached],
         process |-> Restore(AtEndOfTry(p, src_dir, run), p.cwd, p.stdout),
         figure_list |-> run.saved,
         caches |-> cached,
         propagated |-> run.at # "none" /\ ~Caught(run.kind)]

\* Lines 970-971: glob.glob(image_path % '[1-9]').
ListedImages(f) == {n \in DOMAIN f.images : n \in 1..9}

\* generate_file_rst(fname, target_dir, src_dir, plot_gallery) on the files
\* f of the example, in process state p at time now.
generate_file_rst(f, p, now, fname, src_dir, plot_gallery, run) ==
    LET copy == [f EXCEPT !.copied = TRUE]
        plot == plot_gallery /\ startswith(fname, <<"p", "l", "o", "t">>)
        execute == plot /\ NeedsExecution(copy)
        t == IF execute THEN TryExecute(copy, p, now, src_dir, run)
             ELSE [file |-> copy, process |-> p,
                   figure_list |-> IF plot THEN ListedImages(copy) ELSE {},
                   caches |-> FALSE, propagated |-> FALSE]
        thumbed == IF plot /\ 1 \in DOMAIN t.file.images
                   THEN [t.file EXCEPT !.thumb = "image"]
                   ELSE t.file
        replaced == IF thumbed.thumb = "none"
                    THEN [thumbed EXCEPT !.thumb = "no_image"]
                    ELSE thumbed
        written == [replaced EXCEPT !.rst =
                       [template |-> IF plot THEN "plot" ELSE "plain",
                        figure_list |-> t.figure_list]]
    IN  [file |-> IF t.propagated THEN t.file ELSE written,
         process |-> t.process,
         executed |-> execute,
         run |-> IF execute THEN run ELSE NoRun,
         caches |-> t.caches,
         figure_list |-> t.figure_list,
         propagated |-> t.propagated,
         rst_written |-> ~t.propagated]

(***************************************************************************)
(* Calls of generate_file_rst on the examples of one source directory,     *)
(* between which time passes and sources are edited.                       *)
(***************************************************************************)
NoLast ==
    [n |-> 0, fname |-> <<>>, plot_gallery |-> FALSE, executed |-> FALSE,
     run |-> NoRun, caches |-> FALSE, figure_list |-> {},
     propagated |-> FALSE, rst_written |-> FALSE, before |-> <<>>]

\* What the call number n, of generate_file_rst(fname, ...) with result r
\* in process state p, did.
LastCall(n, fname, plot_gallery, r, p) ==
    [n |-> n, fname |-> fname, plot_gallery |-> plot_gallery,
     executed |-> r.executed, run |-> r.run, caches |-> r.caches,
     figure_list |-> r.figure_list, propagated |-> r.propagated,
     rst_written |-> r.rst_written, before |-> p]

\* fresh records of an example that its latest execution raised nothing
\* and that its source has not been edited since, with the figures that
\* the execution saved and the time at which it did.
NotFresh == [ok |-> FALSE, figs |-> {}, time |-> 0]

Freshened(was, r, now) ==
    IF ~r.executed THEN was
    ELSE IF r.run.at = "none"
    THEN [ok |-> TRUE, figs |-> r.run.saved, time |-> now]
    ELSE NotFresh

InitFile ==
    /\ NoCall /\ NoThreads /\ NoResolver
    /\ clock = 0
    /\ files = [fname \in {PlotA, Replot} |-> NewExample]
    /\ process \in [cwd : {"doc", "build"}, stdout : {"console"}]
    /\ tree = <<>>
    /\ index = <<>>
    /\ last = NoLast
    /\ fresh = [fname \in {PlotA, Replot} |-> NotFresh]

\* Time passes.
Tick ==
    /\ clock < MaxTime
    /\ clock' = clock + 1
    /\ UNCHANGED <<files, process, tree, index, last, fresh>>
    /\ UNCHANGED <<callVars, threadVars, resolverVars>>

\* The source of an example is edited.
Touch ==
    \E fname \in DOMAIN files :
        /\ files' = [files EXCEPT ![fname].src = clock]
        /\ fresh' = [fresh EXCEPT ![fname] = NotFresh]
        /\ UNCHANGED <<clock, process, tree, index, last>>
        /\ UNCHANGED <<callVars, threadVars, resolverVars>>

\* generate_file_rst(fname, target_dir, src_dir, plot_gallery).
GenerateFileRst ==
    \E fname \in DOMAIN files, plot_gallery \in BOOLEAN, run \in Runs :
        LET r == generate_file_rst(files[fname], process, clock, fname,
                                   "examples", plot_gallery, run)
        IN  /\ last.n < MaxCalls
            /\ r.executed \/ run = NoRun
            /\ files' = [files EXCEPT ![fname] = r.file]
            /\ process' = r.process
            /\ last' = LastCall(last.n + 1, fname, plot_gallery, r, process)
            /\ fresh' = [fresh EXCEPT ![fname] = Freshened(@, r, clock)]
            /\ UNCHANGED <<clock, tree, index>>
            /\ UNCHANGED <<callVars, threadVars, resolverVars>>

NextFile == Tick \/ Touch \/ GenerateFileRst

SpecFile == InitFile /\ [][NextFile]_vars

(***************************************************************************)
(* extract_line_count and line_count_sort.  A source file is the sequence  *)
(* of the kinds of its lines: "shebang" (a line that begins with #!),      *)
(* "comment", "string" (a string on a line of its own) and "code".         *)
(***************************************************************************)
MaxFiles == 3
MaxLines == 1

LineKinds == {"shebang", "comment", "string", "code"}

\* The row of the first STRING token of the lines, counted from first; 0
\* if there is none (erow_docstring, lines 640-647).
RECURSIVE FirstString(_, _)
FirstString(lines, first) ==
    IF lines = <<>> THEN 0
    ELSE IF Head(lines) = "string" THEN first
    ELSE FirstString(Tail(lines), first + 1)

\* Lines 626-648, extract_line_count: a first line with #! is dropped and
\* counted by start_row; the last token, ENDMARKER, ends on the row after
\* the last line.
extract_line_count(source) ==
    LET shebang == source # <<>> /\ Head(source) = "shebang"
        lines == IF shebang THEN Tail(source) ELSE source
        start_row == IF shebang THEN 1 ELSE 0
        erow == Len(lines) + 1
    IN  <<FirstString(lines, 1) + 1 + start_row, erow + 1 + start_row>>

\* The code points of the characters of the file names.
Ord ==
    ("." :> 46) @@ ("B" :> 66) @@ ("_" :> 95) @@ ("a" :> 97) @@ ("b" :> 98)
    @@ ("c" :> 99) @@ ("e" :> 101) @@ ("l" :> 108) @@ ("o" :> 111)
    @@ ("p" :> 112) @@ ("r" :> 114) @@ ("t" :> 116) @@ ("y" :> 121)

\* a < b for strings.
StrLess(a, b) ==
    \E i \in 1..(Len(a) + 1) :
        /\ i <= Len(b)
        /\ SubSeq(a, 1, i - 1) = SubSeq(b, 1, i - 1)
        /\ i = Len(a) + 1 \/ Ord[a[i]] < Ord[b[i]]

\* The order of np.lexsort((names, counts)) on the rows [name, count]: by
\* the count, then by the name.
RowLeqNameFirst(x, y) ==
    \/ StrLess(x.name, y.name)
    \/ x.name = y.name /\ x.count <= y.count

RowLeq(x, y) ==
    \/ x.count < y.count
    \/ x.count = y.count /\ ~StrLess(y.name, x.name)

\* np.lexsort is a stable sort: a row goes behind the rows that are not
\* greater.
RECURSIVE InsertRow(_, _)
InsertRow(row, sorted) ==
    IF sorted = <<>> THEN <<row>>
    ELSE IF RowLeq(Head(sorted), row)
    THEN <<Head(sorted)>> \o InsertRow(row, Tail(sorted))
    ELSE <<row>> \o sorted

RECURSIVE lexsort(_)
lexsort(rows) ==
    IF rows = <<>> THEN <<>>
    ELSE InsertRow(rows[Len(rows)], lexsort(SubSeq(rows, 1, Len(rows) - 1)))

\* Line 653: [x for x in file_list if x.endswith('.py')]
RECURSIVE PyFiles(_)
PyFiles(file_list) ==
    IF file_list = <<>> THEN <<>>
    ELSE IF endswith(Head(file_list), <<".", "p", "y">>)
    THEN <<Head(file_list)>> \o PyFiles(Tail(file_list))
    ELSE PyFiles(Tail(file_list))

\* Lines 656-659: unsorted[count] = [exmpl, total_lines - docstr_lines].
Unsorted(new_list, counts) ==
    [i \in 1..Len(new_list) |->
        [name |-> new_list[i],
         count |-> counts[new_list[i]][2] - counts[new_list[i]][1]]]

\* Lines 651-664, line_count_sort(file_list, target_dir), where counts
\* gives what extract_line_count returns for each file of target_dir.
line_count_sort(file_list, counts) ==
    LET sorted == lexsort(Unsorted(PyFiles(file_list), counts))
    IN  [i \in 1..Len(sorted) |-> sorted[i].name]

(***************************************************************************)
(* Calls of extract_line_count and of line_count_sort.                     *)
(***************************************************************************)
APy == <<"a", ".", "p", "y">>
AbPy == <<"a", "b", ".", "p", "y">>
BigBPy == <<"B", ".", "p", "y">>
Copy == <<"c", "o", "p", "y">>

SortNames == {APy, AbPy, BigBPy, Copy}

\* The source files of up to MaxLines lines, and what extract_line_count
\* returns for them.
Sources == {<<>>} \cup SeqsOf(LineKinds, MaxLines)
LinePairs == {extract_line_count(source) : source \in Sources}

InitSort ==
    /\ NoThreads
    /\ NoGallery /\ NoResolver
    /\ pc = "call"
    /\ ret = NoRet
    /\ \/ /\ op = "extract_line_count"
          /\ \E source \in Sources : args = [source |-> source]
       \/ /\ op = "line_count_sort"
          /\ \E file_list \in {<<>>} \cup SeqsOf(SortNames, MaxFiles),
                counts \in [{APy, AbPy, BigBPy} -> LinePairs] :
                args = [file_list |-> file_list, counts |-> counts]

ExtractLineCount ==
    /\ pc = "call"
    /\ op = "extract_line_count"
    /\ ret' = Returned(extract_line_count(args.source))
    /\ pc' = "done"
    /\ UNCHANGED <<op, args, threadVars, galleryVars, resolverVars>>

LineCountSort ==
    /\ pc = "call"
    /\ op = "line_count_sort"
    /\ ret' = Returned(line_count_sort(args.file_list, args.counts))
    /\ pc' = "done"
    /\ UNCHANGED <<op, args, threadVars, galleryVars, resolverVars>>

NextSort == ExtractLineCount \/ LineCountSort

SpecSort == InitSort /\ [][NextSort]_vars

(***************************************************************************)
(* make_thumbnail.  The sizes are whole numbers of pixels, the scales      *)
(* rational numbers.                                                       *)
(***************************************************************************)
MaxSize == 5

\* round(x) of a rational x >= 0: Python 2 rounds a half away from zero,
\* Python 3 rounds it to the even neighbour.
Round(x, py3) ==
    LET floor == x.a \div x.d
        twice == 2 * (x.a - floor * x.d)
    IN  IF twice < x.d THEN floor
        ELSE IF twice > x.d THEN floor + 1
        ELSE IF py3 /\ floor % 2 = 0 THEN floor
        ELSE floor + 1

\* Lines 756-759: the scale that makes the width fit, unless the height
\* then does not fit.
ScaleOfSwapped(scale_w, scale_h, height_in, height) ==
    IF QLeq(QMul(IntNum(height_in), scale_w), IntNum(height))
    THEN scale_h ELSE scale_w

ScaleOf(scale_w, scale_h, height_in, height) ==
    IF QLeq(QMul(IntNum(height_in), scale_w), IntNum(height))
    THEN scale_w ELSE scale_h

\* Lines 747-772, make_thumbnail(in_fname, out_fname, width, height) for
\* an image of size (width_in, height_in): the size asked of
\* img.thumbnail and the position at which the image is pasted.
make_thumbnail(width_in, height_in, width, height, py3) ==
    LET scale_w == QDiv(IntNum(width), IntNum(width_in))
        scale_h == QDiv(IntNum(height), IntNum(height_in))
        scale == ScaleOf(scale_w, scale_h, height_in, height)
        width_sc == Round(QMul(scale, IntNum(width_in)), py3)
        height_sc == Round(QMul(scale, IntNum(height_in)), py3)
    IN  [scale |-> scale, width_sc |-> width_sc, height_sc |-> height_sc,
         pos_insert |-> <<(width - width_sc) \div 2,
                          (height - height_sc) \div 2>>]

InitThumb ==
    /\ NoThreads
    /\ NoGallery /\ NoResolver
    /\ pc = "call"
    /\ ret = NoRet
    /\ op = "make_thumbnail"
    /\ args \in [width_in : 1..MaxSize, height_in : 1..MaxSize,
                 width : 1..MaxSize, height : 1..MaxSize, py3 : BOOLEAN]

MakeThumbnail ==
    /\ pc = "call"
    /\ op = "make_thumbnail"
    /\ ret' = Returned(make_thumbnail(args.width_in, args.height_in,
                                      args.width, args.height, args.py3))
    /\ pc' = "done"
    /\ UNCHANGED <<op, args, threadVars, galleryVars, resolverVars>>

NextThumb == MakeThumbnail

SpecThumb == InitThumb /\ [][NextThumb]_vars

(***************************************************************************)
(* parse_sphinx_searchindex: _select_block and _parse_dict_recursive.  A   *)
(* string is the sequence of its characters; positions count from 0 as in  *)
(* the code.                                                               *)
(***************************************************************************)
MaxBlock == 5
MaxStr == 4

\* s[p] and s[i:j].
At(s, p) == s[p + 1]

Slice(s, i, j) ==
    LET to == IF j > Len(s) THEN Len(s) ELSE j
    IN  IF i >= to THEN <<>> ELSE SubSeq(s, i + 1, to)

\* s.find(c, from) for a character c: the first position from from on that
\* holds c, -1 if there is none.
Find(s, c, from) ==
    LET at == {p \in from..(Len(s) - 1) : At(s, p) = c}
    IN  IF at = {} THEN -1
        ELSE CHOOSE p \in at : \A q \in at : p <= q

\* The loop without the count of nested tags.
RECURSIVE BlockEndFlat(_, _, _, _, _)
BlockEndFlat(str_in, start_tag, end_tag, pos, depth) ==
    IF At(str_in, pos) = end_tag \/ pos = Len(str_in) - 1 THEN pos
    ELSE BlockEndFlat(str_in, start_tag, end_tag, pos + 1, depth)

\* Lines 165-172: the for loop of _select_block from position pos on with
\* the depth reached before it; gives the value of pos after the loop.
RECURSIVE BlockEnd(_, _, _, _, _)
BlockEnd(str_in, start_tag, end_tag, pos, depth) ==
    LET next == IF At(str_in, pos) = start_tag THEN depth + 1
                ELSE IF At(str_in, pos) = end_tag THEN depth - 1
                ELSE depth
    IN  IF next = 0 \/ pos = Len(str_in) - 1 THEN pos
        ELSE BlockEnd(str_in, start_tag, end_tag, pos + 1, next)

\* Lines 159-174, _select_block(str_in, start_tag, end_tag).
select_block(str_in, start_tag, end_tag) ==
    LET start_pos == Find(str_in, start_tag, 0)
    IN  IF start_pos < 0 THEN [raised |-> "ValueError"]
        ELSE Returned(Slice(str_in, start_pos + 1,
                            BlockEnd(str_in, start_tag, end_tag, start_pos,
                                     0)))

\* s.split(',')
RECURSIVE Split(_)
Split(s) ==
    LET comma == Find(s, ",", 0)
    IN  IF comma < 0 THEN <<s>>
        ELSE <<Slice(s, 0, comma)>> \o Split(Slice(s, comma + 1, Len(s)))

\* int(item), for the items that int accepts: the strings of digits.
Digits == ("0" :> 0) @@ ("1" :> 1)

IsInt(item) == item # <<>> /\ \A i \in DOMAIN item : item[i] \in DOMAIN Digits

RECURSIVE IntOf(_)
IntOf(item) ==
    IF item = <<>> THEN 0
    ELSE 10 * IntOf(SubSeq(item, 1, Len(item) - 1)) + Digits[item[Len(item)]]

\* Lines 188-193: the elements that int converts are numbers.
ListValue(s) ==
    LET value == Split(s)
    IN  [i \in DOMAIN value |->
            IF IsInt(value[i]) THEN IntOf(value[i]) ELSE value[i]]

\* key.strip('"')
RECURSIVE Strip(_)
Strip(key) ==
    IF key = <<>> THEN key
    ELSE IF Head(key) = "\"" THEN Strip(Tail(key))
    ELSE IF key[Len(key)] = "\"" THEN Strip(SubSeq(key, 1, Len(key) - 1))
    ELSE key

\* Lines 177-180: the frame of a call of _parse_dict_recursive(dict_str).
\* sub is the string passed to the call that the frame is waiting for,
\* broke tells that the loop was left at line 209.
NewFrame(dict_str) ==
    [dict_str |-> dict_str, dict_out |-> <<>>, pos_last |-> 0,
     pos |-> Find(dict_str, ":", 0), sub |-> <<>>, broke |-> FALSE]

\* The end of an iteration that looks for the next ':' from pos on.
AfterValueSamePos(f, value, pos_tmp) ==
    LET key == Strip(Slice(f.dict_str, f.pos_last, f.pos))
        comma == Find(f.dict_str, ",", pos_tmp)
    IN  [dict_str |-> f.dict_str,
         dict_out |-> IF Len(key) > 0 THEN (key :> value) @@ f.dict_out
                      ELSE f.dict_out,
         pos_last |-> IF comma < 0 THEN comma ELSE comma + 1,
         pos |-> IF comma < 0 THEN f.pos
                 ELSE Find(f.dict_str, ":", f.pos),
         sub |-> <<>>,
         broke |-> comma < 0]

\* Lines 203-211: the end of an iteration that has found value and pos_tmp.
AfterValue(f, value, pos_tmp) ==
    LET key == Strip(Slice(f.dict_str, f.pos_last, f.pos))
        comma == Find(f.dict_str, ",", pos_tmp)
    IN  [dict_str |-> f.dict_str,
         dict_out |-> IF Len(key) > 0 THEN (key :> value) @@ f.dict_out
                      ELSE f.dict_out,
         pos_last |-> IF comma < 0 THEN comma ELSE comma + 1,
         pos |-> IF comma < 0 THEN f.pos
                 ELSE Find(f.dict_str, ":", comma + 1),
         sub |-> <<>>,
         broke |-> comma < 0]

\* The frame of the running call, and whether its loop goes on (line 181).
Top == frames[Len(frames)]
Looping(f) == f.pos >= 0 /\ ~f.broke

\* What line 183 finds behind the ':': "list", "dict", or the exception
\* raised there or at line 187.
Behind(f) ==
    IF f.pos + 1 >= Len(f.dict_str) THEN "IndexError"
    ELSE IF At(f.dict_str, f.pos + 1) = "["
    THEN IF Find(f.dict_str, "]", f.pos + 1) < 0 THEN "RuntimeError"
         ELSE "list"
    ELSE IF At(f.dict_str, f.pos + 1) = "{" THEN "dict"
    ELSE "ValueError"

\* The strings that are parsed: all short ones, and some longer ones with
\* nested dictionaries, quoted keys and unbalanced braces.
BlockChars == {"{", "}", "a"}
ParseChars == {":", "[", "]", "{", "}", ",", "a", "1"}

Chars(s) == [i \in 1..Len(s) |-> s[i]]

ParseSamples ==
    {<<"a", ":", "{", "1", ":", "[", "1", ",", "a", "]", "}", ",", "\"",
       "1", "\"", ":", "[", "a", "]">>,
     <<"a", ":", "{", "a", ":", "{", "a", ":", "[", "1", "]", "}", "}">>,
     <<"a", ":", "{", "a", ":", "[", "1", "]">>,
     <<"a", ":", "{", "}", ",", "a", ":", "[", "1", "0", "]", ",", "1", ":",
       "a">>}

InitParse ==
    /\ NoGallery /\ NoResolver
    /\ heap = <<>>
    /\ frames = <<>>
    /\ pc = "call"
    /\ ret = NoRet
    /\ \/ /\ op = "_select_block"
          /\ \E str_in \in {<<>>} \cup SeqsOf(BlockChars, MaxBlock),
                start_tag \in BlockChars, end_tag \in BlockChars :
                args = [str_in |-> str_in, start_tag |-> start_tag,
                        end_tag |-> end_tag]
       \/ /\ op = "_parse_dict_recursive"
          /\ \E dict_str \in {<<>>} \cup SeqsOf(ParseChars, MaxStr)
                                \cup ParseSamples :
                args = [dict_str |-> dict_str]

\* _select_block(str_in, start_tag, end_tag)
SelectBlock ==
    /\ pc = "call"
    /\ op = "_select_block"
    /\ ret' = select_block(args.str_in, args.start_tag, args.end_tag)
    /\ pc' = "done"
    /\ UNCHANGED <<op, args, threadVars, galleryVars, resolverVars>>

\* _parse_dict_recursive(dict_str) is called: lines 177-180.
ParseDict ==
    /\ pc = "call"
    /\ op = "_parse_dict_recursive"
    /\ frames' = <<NewFrame(args.dict_str)>>
    /\ pc' = "loop"
    /\ UNCHANGED <<op, args, ret, heap, galleryVars, resolverVars>>

\* An iteration whose value is a list: lines 182-193 and 203-211.
IterateList ==
    /\ pc = "loop"
    /\ Looping(Top)
    /\ Behind(Top) = "list"
    /\ LET pos_tmp == Find(Top.dict_str, "]", Top.pos + 1)
           value == ListValue(Slice(Top.dict_str, Top.pos + 2, pos_tmp))
       IN  frames' = [frames EXCEPT ![Len(frames)] =
                         AfterValue(Top, value, pos_tmp)]
    /\ UNCHANGED <<op, args, pc, ret, heap, galleryVars, resolverVars>>

\* An iteration whose value is a dictionary, up to the recursive call:
\* lines 194-198.
Descend ==
    /\ pc = "loop"
    /\ Looping(Top)
    /\ Behind(Top) = "dict"
    /\ LET subdict_str ==
               select_block(Slice(Top.dict_str, Top.pos, Len(Top.dict_str)),
                            "{", "}").value
       IN  frames' = Append([frames EXCEPT ![Len(frames)].sub = subdict_str],
                            NewFrame(subdict_str))
    /\ UNCHANGED <<op, args, pc, ret, heap, galleryVars, resolverVars>>

\* An iteration that raises: lines 183, 187 and 201.  No caller catches.
Raise ==
    /\ pc = "loop"
    /\ Looping(Top)
    /\ Behind(Top) \in {"IndexError", "RuntimeError", "ValueError"}
    /\ ret' = [raised |-> Behind(Top)]
    /\ frames' = <<>>
    /\ pc' = "done"
    /\ UNCHANGED <<op, args, heap, galleryVars, resolverVars>>

\* The recursive call returns dict_out (line 213) and the iteration of the
\* caller goes on: lines 198-199 and 203-211.
ReturnInner ==
    /\ pc = "loop"
    /\ ~Looping(Top)
    /\ Len(frames) > 1
    /\ LET caller == frames[Len(frames) - 1]
       IN  frames' = [SubSeq(frames, 1, Len(frames) - 1)
                        EXCEPT ![Len(frames) - 1] =
                            AfterValue(caller, Top.dict_out,
                                       caller.pos + Len(caller.sub))]
    /\ UNCHANGED <<op, args, pc, ret, heap, galleryVars, resolverVars>>

\* The outermost call returns dict_out.
ReturnOuter ==
    /\ pc = "loop"
    /\ ~Looping(Top)
    /\ Len(frames) = 1
    /\ ret' = Returned(Top.dict_out)
    /\ frames' = <<>>
    /\ pc' = "done"
    /\ UNCHANGED <<op, args, heap, galleryVars, resolverVars>>

NextParse ==
    \/ SelectBlock
    \/ ParseDict
    \/ IterateList
    \/ Descend
    \/ Raise
    \/ ReturnInner
    \/ ReturnOuter

\* A call that has begun goes on: nothing else runs.
SpecParse == InitParse /\ [][NextParse]_vars /\ WF_vars(NextParse)

(***************************************************************************)
(* generate_dir_rst on the directories of the examples: the root '.' with  *)
(* plot_a.py, plot_b.py and a file named copy, and the directory tutorial  *)
(* with replot.py.                                                         *)
(***************************************************************************)
MaxBuilds == 2

PlotB == <<"p", "l", "o", "t", "_", "b", ".", "p", "y">>

Dirs == {".", "tutorial"}

\* os.listdir(src_dir), README.txt left aside.
listdir(dir) == IF dir = "." THEN <<PlotA, Copy, PlotB>> ELSE <<Replot>>

Listing(dir) == {listdir(dir)[i] : i \in DOMAIN listdir(dir)}

\* The examples of a directory.
Examples(dir) == {x \in Listing(dir) : endswith(x, <<".", "p", "y">>)}

\* What extract_line_count returns for each example: the line after its
\* docstring and its number of lines.
LineCounts ==
    (PlotA :> <<2, 5>>) @@ (PlotB :> <<2, 4>>) @@ (Replot :> <<2, 4>>)

\* The runs of the examples of a directory: those that end, or raise in
\* the example or in savefig, leave at most figure 1 open and do not change
\* the process state themselves.
DirRuns ==
    {r \in Runs : /\ r.at \in {"none", "exec", "save"}
                  /\ r.figs \subseteq {1}
                  /\ ~r.meddles}

\* Lines 676: os.path.exists(os.path.join(src_dir, 'README.txt')).
HasReadmeAlways(t, dir) == TRUE

HasReadme(t, dir) == t[dir].readme

\* Lines 696-731: what the loop has done after generate_file_rst(fname,
\* ...) has done r.  st holds the files, the process state, the index
\* written so far, what each call of generate_file_rst did, and whether one
\* of them left by an exception, which ends generate_dir_rst.
AfterFile(st, dir, fname, r) ==
    [files |-> [st.files EXCEPT ![fname] = r.file],
     process |-> r.process,
     index |-> IF r.propagated THEN st.index
               ELSE Append(st.index, <<"figure", dir, fname>>),
     calls |-> [name \in DOMAIN st.calls \cup {fname} |->
                  IF name = fname THEN r ELSE st.calls[name]],
     raised |-> r.propagated]

\* Lines 694-696: one element of sorted_listdir.
DirStep(st, dir, fname, now, plot_gallery, run) ==
    IF ~endswith(fname, <<"p", "y">>) THEN st
    ELSE AfterFile(st, dir, fname,
                   generate_file_rst(st.files[fname], st.process, now, fname,
                                     dir, plot_gallery, run))

\* Lines 694-731, the loop over sorted_listdir from its element number i
\* on.
RECURSIVE DirLoop(_, _, _, _, _, _, _)
DirLoop(st, dir, listed, i, now, plot_gallery, runs) ==
    IF i > Len(listed) \/ st.raised THEN st
    ELSE DirLoop(DirStep(st, dir, listed[i], now, plot_gallery,
                         runs[listed[i]]),
                 dir, listed, i + 1, now, plot_gallery, runs)

\* Lines 690-691 and 737-741: the target directory is made before the
\* loop, the section is closed in the index after it.
AfterLoop(t, dir, st) ==
    [tree |-> [t EXCEPT ![dir].target = TRUE],
     files |-> st.files,
     process |-> st.process,
     index |-> IF st.raised THEN st.index
               ELSE Append(st.index, <<"clear", dir, <<>>>>),
     calls |-> st.calls,
     raised |-> st.raised,
     skipped |-> FALSE]

\* generate_dir_rst(dir, fhindex, example_dir, root_dir, plot_gallery) on
\* the directories t, the files fs and the index ix.
generate_dir_rst(t, fs, p, ix, now, dir, plot_gallery, runs) ==
    IF ~HasReadme(t, dir)
    THEN [tree |-> t, files |-> fs, process |-> p, index |-> ix,
          calls |-> <<>>, raised |-> FALSE, skipped |-> TRUE]
    ELSE AfterLoop(t, dir,
                   DirLoop([files |-> fs, process |-> p,
                            index |-> Append(ix, <<"readme", dir, <<>>>>),
                            calls |-> <<>>, raised |-> FALSE],
                           dir, line_count_sort(listdir(dir), LineCounts), 1,
                           now,
                           plot_gallery, runs))

NoLastDir ==
    [n |-> 0, dir |-> "none", plot_gallery |-> FALSE, calls |-> <<>>,
     raised |-> FALSE, skipped |-> FALSE]

InitDir ==
    /\ NoCall /\ NoThreads /\ NoResolver
    /\ clock = 0
    /\ files = [fname \in {PlotA, Replot, PlotB} |-> NewExample]
    /\ process = [cwd |-> "doc", stdout |-> "console"]
    /\ tree \in [Dirs -> [readme : BOOLEAN, target : {FALSE}]]
    /\ index = <<>>
    /\ last = NoLastDir
    /\ fresh = <<>>

\* Time passes between two builds.
TickDir ==
    /\ clock < MaxTime
    /\ clock' = clock + 1
    /\ UNCHANGED <<files, process, tree, index, last, fresh>>
    /\ UNCHANGED <<callVars, threadVars, resolverVars>>

\* The state after a call of generate_dir_rst that has done d.
Built(d, dir, plot_gallery, runs) ==
    /\ \A fname \in Examples(dir) :
          \/ runs[fname] = NoRun
          \/ fname \in DOMAIN d.calls /\ d.calls[fname].executed
    /\ tree' = d.tree
    /\ files' = d.files
    /\ process' = d.process
    /\ index' = d.index
    /\ last' = [n |-> last.n + 1, dir |-> dir,
                plot_gallery |-> plot_gallery, calls |-> d.calls,
                raised |-> d.raised, skipped |-> d.skipped]

\* generate_dir_rst(dir, fhindex, example_dir, root_dir, plot_gallery).
GenerateDirRst ==
    \E dir \in Dirs, plot_gallery \in BOOLEAN :
      \E runs \in [Examples(dir) -> DirRuns \cup {NoRun}] :
        /\ last.n < MaxBuilds
        /\ Built(generate_dir_rst(tree, files, process, index, clock, dir,
                                  plot_gallery, runs),
                 dir, plot_gallery, runs)
        /\ UNCHANGED <<clock, fresh>>
        /\ UNCHANGED <<callVars, threadVars, resolverVars>>

NextDir == TickDir \/ GenerateDirRst

SpecDir == InitDir /\ [][NextDir]_vars

(***************************************************************************)
(* SphinxDocLinkResolver: one resolver and the resolve calls made on it.   *)
(* Dotted names are sequences of their parts.                              *)
(***************************************************************************)
MaxResolves == 3

\* The code objects that are looked up.
Cobjs ==
    {[module_short |-> <<"np", "linalg">>, name |-> "norm"],
     [module_short |-> <<"np", "linalg">>, name |-> "inv"],
     [module_short |-> <<"np">>, name |-> "linalg"],
     [module_short |-> <<"np">>, name |-> "fft"],
     [module_short |-> <<"np", "fft">>, name |-> "rfft"],
     [module_short |-> <<"np">>, name |-> "missing"]}

\* cobj['module_short'] + '.' + cobj['name']
full_name(cobj) == Append(cobj.module_short, cobj.name)

FullNames == {full_name(cobj) : cobj \in Cobjs}

\* self._searchindex['objects']: a value is a dictionary from member names
\* to lists that begin with the index of a file, or such a list itself.
SearchObjects ==
    (<<"np", "linalg">> :>
        [dict |-> TRUE, members |-> ("norm" :> 0) @@ ("inv" :> 0), idx |-> 0])
    @@ (<<"np", "fft">> :> [dict |-> FALSE, members |-> <<>>, idx |-> 1])

\* self._searchindex['filenames'] with '.html' added and joined to doc_url.
Pages == (0 :> "linalg.html") @@ (1 :> "routines.html")

\* The names that the text of each page holds.
Html ==
    ("linalg.html" :> {<<"np", "linalg", "norm">>})
    @@ ("routines.html" :> {<<"np", "fft", "rfft">>})

\* html.find(comb_name) >= 0
Found(html, comb_name) ==
    \E text \in html :
        \E i \in 0..(Len(text) - Len(comb_name)) :
            SubSeq(text, i + 1, i + Len(comb_name)) = comb_name

\* Lines 283-326, _get_link(cobj) in a resolver with the page cache pages.
\* py3: the interpreter is Python 3, where value.keys()[0] raises
\* TypeError; first: the key that value.keys()[0] gives under Python 2;
\* fetch_ok: whether get_data returns the page or raises.  value.keys() of
\* a list raises AttributeError (line 295).
get_link(cobj, pages, py3, first, fetch_ok) ==
    LET full == full_name(cobj)
        none == [raised |-> "none", link |-> "False", page_cache |-> pages,
                 get_data |-> "none"]
        direct == full \in DOMAIN SearchObjects
        value == IF direct THEN SearchObjects[full]
                 ELSE SearchObjects[cobj.module_short]
        has_idx ==
            \/ direct
            \/ /\ cobj.module_short \in DOMAIN SearchObjects
               /\ value.dict
               /\ cobj.name \in DOMAIN value.members
        fname_idx == IF direct
                     THEN IF value.dict THEN value.members[first]
                          ELSE value.idx
                     ELSE value.members[cobj.name]
        link == Pages[fname_idx]
        cached == link \in DOMAIN pages
    IN  IF direct /\ value.dict /\ py3
        THEN [none EXCEPT !.raised = "TypeError"]
        ELSE IF ~direct /\ cobj.module_short \in DOMAIN SearchObjects
                /\ ~value.dict
        THEN [none EXCEPT !.raised = "AttributeError"]
        ELSE IF ~has_idx THEN none
        ELSE IF ~cached /\ ~fetch_ok
        THEN [none EXCEPT !.raised = "URLError", !.get_data = link]
        ELSE [raised |-> "none",
              link |-> IF Found(Html[link], full) THEN <<link, full>>
                       ELSE "False",
              page_cache |-> IF cached THEN pages
                             ELSE (link :> Html[link]) @@ pages,
              get_data |-> IF cached THEN "none" ELSE link]

\* Line 354: self._link_cache[full_name] = link
CachedUnlessFalse(cache, full, link) ==
    IF link = "False" THEN cache ELSE (full :> link) @@ cache

Cached(cache, full, link) == (full :> link) @@ cache

\* Lines 328-369, resolve(cobj, this_url) of a resolver with relative
\* False.
resolve(cobj, links, pages, py3, first, fetch_ok) ==
    LET full == full_name(cobj)
        invoke == full \notin DOMAIN links
        g == get_link(cobj, pages, py3, first, fetch_ok)
        link == IF invoke THEN g.link ELSE links[full]
    IN  IF invoke /\ g.raised # "none"
        THEN [raised |-> g.raised, result |-> "None", link_cache |-> links,
              page_cache |-> pages, invoked |-> TRUE, get_data |-> g.get_data]
        ELSE [raised |-> "none",
              result |-> IF link = "False" THEN "None" ELSE link,
              link_cache |-> IF invoke THEN Cached(links, full, link)
                             ELSE links,
              page_cache |-> IF invoke THEN g.page_cache ELSE pages,
              invoked |-> invoke,
              get_data |-> IF invoke THEN g.get_data ELSE "none"]

\* lookups counts, for every full name, the calls of _get_link and those
\* that returned, and for every page the calls of get_data and those that
\* returned, and tells what the latest resolve call did.
InitResolver ==
    /\ NoCall /\ NoThreads /\ NoGallery
    /\ link_cache = <<>>
    /\ page_cache = <<>>
    /\ lookups \in
          [n : {0}, py3 : BOOLEAN,
           get_link : {[full \in FullNames |-> 0]},
           returned : {[full \in FullNames |-> 0]},
           get_data : {[link \in DOMAIN Html |-> 0]},
           fetched : {[link \in DOMAIN Html |-> 0]},
           last : {[full |-> <<>>, raised |-> "none", result |-> "None",
                    invoked |-> FALSE]}]

Add(counts, key, by) ==
    IF key \in DOMAIN counts THEN [counts EXCEPT ![key] = @ + by]
    ELSE counts

\* resolver.resolve(cobj, this_url)
Resolve ==
    \E cobj \in Cobjs, first \in {"norm", "inv"}, fetch_ok \in BOOLEAN :
        LET full == full_name(cobj)
            r == resolve(cobj, link_cache, page_cache, lookups.py3, first,
                         fetch_ok)
            by(b) == IF b THEN 1 ELSE 0
        IN  /\ lookups.n < MaxResolves
            /\ link_cache' = r.link_cache
            /\ page_cache' = r.page_cache
            /\ lookups' =
                  [n |-> lookups.n + 1,
                   py3 |-> lookups.py3,
                   get_link |-> Add(lookups.get_link, full, by(r.invoked)),
                   returned |-> Add(lookups.returned, full,
                                    by(r.invoked /\ r.raised = "none")),
                   get_data |-> Add(lookups.get_data, r.get_data, 1),
                   fetched |-> Add(lookups.fetched, r.get_data,
                                   by(r.raised = "none")),
                   last |-> [full |-> full, raised |-> r.raised,
                             result |-> r.result, invoked |-> r.invoked]]
            /\ UNCHANGED <<callVars, threadVars, galleryVars>>

NextResolver == Resolve

SpecResolver == InitResolver /\ [][NextResolver]_vars

(***************************************************************************)
(* Claims about compute_directional_stats, checked under SpecStats.        *)
(***************************************************************************)
TheField == args.field
OutIdx == 1..OutLen(TheField, args.axis)

\* The number of non-masked elements of the field that are reduced into
\* output position i along the axis of the call.
ValidAlongAxis(i) ==
    Cardinality({k \in 1..Len(Lane(TheField, args.axis, i)) :
                    ~Lane(TheField, args.axis, i)[k].m})

\* C1: whenever compute_directional_stats returns, every output position
\* whose returned nvalid is below nvalid_min is masked in the returned
\* values.
Thm_C1 ==
    StatsReturned =>
        \A i \in 1..Len(ret.values) :
            ret.nvalid[i] < args.nvalid_min => ret.values[i].m

\* A call in which the mean or median of a position was a number (the lane
\* has a valid element) and the position was masked for having fewer than
\* nvalid_min valid elements.
Wit_C1 ==
    /\ StatsReturned
    /\ \E i \in 1..Len(ret.values) :
          /\ ret.nvalid[i] >= 1
          /\ ret.nvalid[i] < args.nvalid_min
          /\ ValidAlongAxis(i) >= 1
          /\ ret.values[i].m

\* C2: for both axes and every field shape the call returns, nvalid has the
\* shape of values (the reduction axis removed) and nvalid[i] is the number
\* of non-masked elements along the reduction axis at output index i.
Cex_C2 ==
    StatsDone =>
        /\ ret.raised = "none"
        /\ Len(ret.values) = OutLen(TheField, args.axis)
        /\ Len(ret.nvalid) = Len(ret.values)
        /\ \A i \in OutIdx :
              ret.nvalid[i] >= 0 /\ ret.nvalid[i] = ValidAlongAxis(i)

\* C3: at every output position with at least one and at least nvalid_min
\* valid inputs along the reduction axis, the returned value is not masked
\* and is the plain mean or median of the valid entries.
PlainStat(i) ==
    LET data == ValidData(Lane(TheField, args.axis, i))
    IN  IF args.avg_type = "mean" THEN NpMean(data) ELSE MedianOf(data)

Cex_C3 ==
    StatsReturned =>
        \A i \in OutIdx :
            (ValidAlongAxis(i) >= 1 /\ ValidAlongAxis(i) >= args.nvalid_min)
                => (~ret.values[i].m /\ ret.values[i].v = PlainStat(i))

\* C4: the median along axis 0 of a field without masked elements is the
\* per-column median (half the sum of the two middle values for an even
\* number of rows) with nvalid the number of rows everywhere, for the
\* default nvalid_min and any other that the number of rows reaches; the
\* field [[1,2,3],[3,2,1]] gives values [2,2,2] and nvalid [2,2,2].
NoneMasked(field) ==
    \A r \in 1..NRows(field) : \A c \in 1..NCols(field) : ~field[r][c].m

\* The k-th smallest element of column c, told by counting.
AtMost(field, c, x) == Cardinality({r \in 1..NRows(field) : field[r][c].v <= x})
AtLeast(field, c, x) == Cardinality({r \in 1..NRows(field) : field[r][c].v >= x})

IsTwiceColumnMedian(field, c, twice) ==
    LET n == NRows(field)
        lowHalf == n \div 2
        highHalf == n - lowHalf
    IN  \E rlo, rhi \in 1..n :
            LET lo == field[rlo][c].v
                hi == field[rhi][c].v
            IN  /\ AtMost(field, c, lo) >= highHalf
                /\ AtLeast(field, c, lo) >= lowHalf + 1
                /\ AtMost(field, c, hi) >= lowHalf + 1
                /\ AtLeast(field, c, hi) >= highHalf
                /\ twice = lo + hi

ExampleField ==
    << <<[v |-> 1, m |-> FALSE], [v |-> 2, m |-> FALSE], [v |-> 3, m |-> FALSE]>>,
       <<[v |-> 3, m |-> FALSE], [v |-> 2, m |-> FALSE], [v |-> 1, m |-> FALSE]>> >>

Thm_C4 ==
    (StatsDone /\ args.avg_type = "median" /\ args.axis = 0
        /\ NoneMasked(TheField) /\ args.nvalid_min <= NRows(TheField))
        => /\ ret.raised = "none"
           /\ Len(ret.values) = NCols(TheField)
           /\ \A c \in 1..NCols(TheField) :
                 /\ ~ret.values[c].m
                 /\ \E twice \in 2..(2 * MaxVal) :
                       /\ IsTwiceColumnMedian(TheField, c, twice)
                       /\ ret.values[c].v = Num(twice, 0, 2)
                 /\ ret.nvalid[c] = NRows(TheField)
           /\ (TheField = ExampleField =>
                  /\ ret.values = <<Plain(IntNum(2)), Plain(IntNum(2)), Plain(IntNum(2))>>
                  /\ ret.nvalid = <<2, 2, 2>>)

\* The call of the example: the median along axis 0 of [[1,2,3],[3,2,1]].
Wit_C4 ==
    /\ StatsDone /\ args.avg_type = "median" /\ args.axis = 0
    /\ args.nvalid_min = 1
    /\ TheField = ExampleField
    /\ ret.raised = "none"
    /\ ret.values[1] = Plain(IntNum(2))
    /\ ret.nvalid = <<2, 2, 2>>

(***************************************************************************)
(* Claims about the circular statistics, checked under SpecCirc.           *)
(***************************************************************************)
\* The direction <<x, y>>, up to a positive factor, of a value in radians:
\* the vector <<1, t>> turned by w grid steps.
DirectionOf(v) ==
    LET c == Cos(v.w.a)
        sn == Sin(v.w.a)
    IN  <<QSub(c, QMul(v.t, sn)), QAdd(sn, QMul(v.t, c))>>

\* lo < v <= hi for a value v = w + s * f with 0 <= f < 1 (f = 0 exactly
\* when t = 0) and bounds that lie a whole number of steps s from w.
InLeftOpen(v, lo, hi) ==
    /\ QLess(lo, v.w) \/ (v.w = lo /\ QSign(v.t) > 0)
    /\ QLess(v.w, hi) \/ (v.w = hi /\ v.t = Zero)

\* lo <= v < hi, likewise.
InRightOpen(v, lo, hi) == QLeq(lo, v.w) /\ QLess(v.w, hi)

AllIdentical(angles) == \A i \in 1..Len(angles) : angles[i] = angles[1]

NullResultant(angles) ==
    /\ SumNums([i \in 1..Len(angles) |-> Cos(angles[i])]) = Zero
    /\ SumNums([i \in 1..Len(angles) |-> Sin(angles[i])]) = Zero

StraddlesBoundary(dist, lo, hi) ==
    /\ Len(dist) = 2
    /\ \E i, j \in 1..2 :
          /\ i # j
          /\ QSub(hi, dist[i]) = QSub(dist[j], lo)
          /\ QSign(QSub(dist[j], lo)) > 0
          /\ QLess(QMul(IntNum(4), QSub(dist[j], lo)), QSub(hi, lo))

\* C10 as claimed: the mean of such a pair is interval_min, returned inside
\* [interval_min, interval_max).
Cex_C10 ==
    (Done("interval_mean")
        /\ StraddlesBoundary(args.dist, args.interval_min, args.interval_max))
        => /\ ret.value.w = args.interval_min /\ ret.value.t = Zero
           /\ InRightOpen(ret.value, args.interval_min, args.interval_max)

\* C10 as amended: the mean of such a pair is interval_max, the same point
\* of the circle as interval_min; it lies in (interval_min, interval_max]
\* and not in [interval_min, interval_max).
Thm_C10 ==
    (Done("interval_mean")
        /\ StraddlesBoundary(args.dist, args.interval_min, args.interval_max))
        => /\ ret.value.w = args.interval_max /\ ret.value.t = Zero
           /\ InLeftOpen(ret.value, args.interval_min, args.interval_max)
           /\ ~InRightOpen(ret.value, args.interval_min, args.interval_max)

\* The call interval_mean([315, 45], 0, 360), which returns 360.
Wit_C10 ==
    /\ Done("interval_mean")
    /\ args.dist = <<IntNum(315), IntNum(45)>>
    /\ args.interval_min = IntNum(0) /\ args.interval_max = IntNum(360)
    /\ ret.value.w = IntNum(360) /\ ret.value.t = Zero

\* The whole numbers of a distribution, as the angle functions take them.
Whole(dist) == [i \in 1..Len(dist) |-> dist[i].a \div dist[i].d]

\* A value v = w + s * f, 0 <= f < 1, with w a whole number of steps s,
\* is above 0, or below 0.
Positive(v) == QSign(v.w) > 0 \/ (v.w = Zero /\ QSign(v.t) > 0)
Negative(v) == QSign(v.w) < 0

\* A call of an interval function on degrees in (0, 360), and on radians
\* in (-pi, pi).
OnDegrees == args.interval_min = IntNum(0) /\ args.interval_max = IntNum(360)
OnRadians == args.interval_min = IntNum(-Pi) /\ args.interval_max = IntNum(Pi)

\* The resultant of the degrees of dist is null.
NullResultantDeg(dist) ==
    NullResultant([i \in 1..Len(dist) |-> Deg2Rad(Whole(dist)[i])])

StepsToRadians(x) ==
    IF x.k = "pos"
    THEN [x EXCEPT !.scale = [c |-> QDivInt(@.c, Pi), p |-> @.p + 1]]
    ELSE x

\* Centres by which an interval and its distribution are moved.
Moves == {IntNum(-7), IntNum(1), IntNum(90)}

\* C12: interval_std(dist, 0, 360) is angular_std_deg(dist) and
\* interval_std(dist, -pi, pi) is angular_std(dist); the dispersion is that
\* of the remapped values scaled by half_width / pi, and moving the
\* interval together with its values leaves it unchanged.
Thm_C12 ==
    Done("interval_std") =>
        /\ OnDegrees => ret.value = angular_std_deg(Whole(args.dist))
        /\ OnRadians => StepsToRadians(ret.value) = angular_std(Whole(args.dist))
        /\ LET half_width == QDivInt(QSub(args.interval_max, args.interval_min), 2)
               center == QAdd(args.interval_min, half_width)
           IN  ret.value = ScalePerPi(angular_std(Remap(args.dist, center, half_width)),
                                      half_width)
        /\ \A c \in Moves :
              interval_std([i \in 1..Len(args.dist) |-> QAdd(args.dist[i], c)],
                           QAdd(args.interval_min, c), QAdd(args.interval_max, c))
                  = ret.value

\* A call interval_std(dist, 0, 360) on two different degree values, one of
\* them outside (-180, 180], that returns the finite non-zero dispersion
\* angular_std_deg(dist).
Wit_C12 ==
    /\ Done("interval_std")
    /\ OnDegrees
    /\ Len(args.dist) = 2
    /\ args.dist[1] = IntNum(270)
    /\ ret.value.k = "pos"
    /\ ret.value.scale = [c |-> IntNum(180), p |-> -1]
    /\ ret.value = angular_std_deg(Whole(args.dist))

\* dist with its i-th value k periods of the interval further.
Folded(dist, i, k, interval_min, interval_max) ==
    [dist EXCEPT ![i] = QAdd(@, QMul(IntNum(k), QSub(interval_max, interval_min)))]

\* Numbers of periods by which a value is moved.
Periods == {-MaxTurns, -1, 1, MaxTurns}

PureResult(f) ==
    LET dist == heap[CallerDist]
    IN  CASE f.op = "angular_mean" -> angular_mean(dist)
          [] f.op = "angular_std" -> angular_std(dist)
          [] f.op = "angular_mean_deg" -> angular_mean_deg(dist)
          [] f.op = "angular_std_deg" -> angular_std_deg(dist)
          [] f.op = "mean_of_two_angles" -> mean_of_two_angles(dist, dist)
          [] f.op = "mean_of_two_angles_deg" ->
                mean_of_two_angles_deg(dist, dist)
          [] f.op = "interval_mean" ->
                interval_mean(AsNums(dist), f.args.interval_min,
                              f.args.interval_max)
          [] f.op = "interval_std" ->
                interval_std(AsNums(dist), f.args.interval_min,
                             f.args.interval_max)

\* Every call that has ended returned (or raised) what its function gives
\* for the caller's arrays, whatever the other thread did meanwhile.
ResultsArePure ==
    \A t \in Threads :
        LET f == frames[t]
        IN  f.pc = "done" =>
              IF f.op = "compute_directional_stats"
              THEN LET r == compute_directional_stats(heap[CallerField],
                                f.args.avg_type, f.args.nvalid_min,
                                f.args.axis)
                   IN  /\ f.ret.raised = r.raised
                       /\ r.raised = "none" =>
                             /\ heap[f.ret.values] = r.values
                             /\ heap[f.ret.nvalid] = r.nvalid
              ELSE f.ret = Returned(PureResult(f))

\* No step changes the data or the mask of an array of the caller.
InputsKept ==
    /\ heap'[CallerField] = heap[CallerField]
    /\ heap'[CallerDist] = heap[CallerDist]

\* C14: every operation of the module is pure with respect to its
\* arguments: no statement of a call changes the data or the mask of the
\* caller's arrays (compute_directional_stats masks elements of the array
\* it returns, not of field), and calls that interleave in any order on
\* the same arrays return what each returns alone.
Thm_C14 == []ResultsArePure /\ [][InputsKept]_vars

\* Both threads are done; the first called compute_directional_stats and
\* got back an element masked for too few valid points, whose lane of the
\* caller's field still holds its unmasked datum; the second called
\* interval_mean on the caller's distribution.
Wit_C14 ==
    /\ \A t \in Threads : frames[t].pc = "done"
    /\ frames["t1"].op = "compute_directional_stats"
    /\ frames["t1"].ret.raised = "none"
    /\ frames["t1"].args.axis = 0
    /\ NRows(heap[CallerField]) = 2 /\ NCols(heap[CallerField]) = 2
    /\ heap[frames["t1"].ret.values][2].m
    /\ heap[frames["t1"].ret.nvalid][2] = 1
    /\ ~heap[CallerField][2][2].m
    /\ frames["t2"].op = "interval_mean"
    /\ frames["t2"].ret = Returned(PureResult(frames["t2"]))

(***************************************************************************)
(* Claims about generate_file_rst, checked under SpecFile.                 *)
(***************************************************************************)
\* The step is a call of generate_file_rst; last' tells what it did.
IsCall == last'.n = last.n + 1

\* The call is made with plot_gallery on a file whose name starts with
\* 'plot'.
IsPlot(call) ==
    call.plot_gallery /\ startswith(call.fname, <<"p", "l", "o", "t">>)

\* C15: the example is executed only if plot_gallery is true,
\* the name starts with 'plot', and the first image is missing or older
\* than the source; in every other case it is not executed, and the images
\* that exist are listed (read here for the 'plot' files only).
Cex_C15 ==
    [][IsCall =>
          LET f == files[last'.fname]
              due == IsPlot(last')
                        /\ (1 \notin DOMAIN f.images \/ f.images[1] < f.src)
          IN  /\ last'.executed => due
              /\ ~due => ~last'.executed
              /\ (~due /\ IsPlot(last'))
                    => last'.figure_list = DOMAIN f.images]_vars

\* C16: once an example has been executed without an exception, the next
\* call with plot_gallery on its unmodified source does not execute it
\* again, whatever figures it created.  The case of a first image with the
\* modification time of the source is the one of C15 and is left out here.
Cex_C16 ==
    [][(IsCall /\ IsPlot(last') /\ fresh[last'.fname].ok
          /\ ~(1 \in DOMAIN files[last'.fname].images
                 /\ files[last'.fname].images[1] <= files[last'.fname].src))
          => ~last'.executed]_vars

\* C17: generate_file_rst leaves sys.stdout and the working directory as
\* it found them, when the example completes and when it raises.
Thm_C17 == last.n > 0 => process = last.before

\* A call that executed an example which changed the working directory and
\* sys.stdout and then left by SystemExit.
Wit_C17 ==
    /\ last.executed
    /\ last.run.at = "exec"
    /\ last.run.kind = "SystemExit"
    /\ last.run.meddles
    /\ process = last.before

(***************************************************************************)
(* Claims about generate_dir_rst, checked under SpecDir.                   *)
(***************************************************************************)
\* The step is a call of generate_dir_rst; last' tells what it did.
IsDirCall == last'.n = last.n + 1

\* C18: an example that raises when it is executed does not end the
\* generation: the exception does not leave generate_file_rst, the cache
\* files of that run are not written, the page of the example is written,
\* and every example of the directory is processed.
Thm_C18 ==
    (last.n > 0 /\ ~last.skipped) =>
        /\ ~last.raised
        /\ \A fname \in Examples(last.dir) :
              /\ fname \in DOMAIN last.calls
              /\ last.calls[fname].rst_written
              /\ files[fname].rst.template # "none"
              /\ (last.calls[fname].executed
                    /\ last.calls[fname].run.at = "exec") =>
                    /\ ~last.calls[fname].propagated
                    /\ ~last.calls[fname].caches

\* A build of the root directory in which plot_b.py, the first example,
\* left by SystemExit, with no cache file, and plot_a.py was executed after
\* it and saved its figure.
Wit_C18 ==
    /\ last.dir = "."
    /\ last.plot_gallery
    /\ PlotB \in DOMAIN last.calls /\ PlotA \in DOMAIN last.calls
    /\ last.calls[PlotB].executed
    /\ last.calls[PlotB].run.at = "exec"
    /\ last.calls[PlotB].run.kind = "SystemExit"
    /\ ~files[PlotB].stdout_txt /\ ~files[PlotB].time_txt
    /\ files[PlotB].rst.template = "plot"
    /\ last.calls[PlotA].executed
    /\ last.calls[PlotA].run.at = "none"
    /\ last.calls[PlotA].figure_list = {1}
    /\ index[Len(index)] = <<"clear", ".", <<>>>>

\* C20: generate_dir_rst on a directory without README.txt writes nothing
\* to the index, creates no target directory, and generates and executes
\* no example.
Thm_C20 ==
    [][(IsDirCall /\ ~tree[last'.dir].readme) =>
          /\ index' = index
          /\ tree' = tree
          /\ files' = files
          /\ process' = process
          /\ last'.calls = <<>>]_vars

\* The second of two builds skips the root directory, which has examples
\* but no README.txt, after the first has written the directory tutorial
\* to the index.
Wit_C20 ==
    /\ last.n = 2
    /\ last.dir = "."
    /\ last.plot_gallery
    /\ last.skipped
    /\ ~tree["."].readme /\ ~tree["."].target
    /\ Len(index) = 3
    /\ \A fname \in Examples(".") : ~files[fname].copied

(***************************************************************************)
(* Claims about SphinxDocLinkResolver, checked under SpecResolver.         *)
(***************************************************************************)
\* C19 as claimed: over the resolve calls on one resolver, _get_link is
\* invoked at most once for each full name and get_data is called at most
\* once for each page.
Cex_C19 ==
    /\ \A full \in FullNames : lookups.get_link[full] <= 1
    /\ \A link \in DOMAIN Html : lookups.get_data[link] <= 1

\* The step is a resolve call; lookups'.last tells what it did.
IsResolve == lookups'.n = lookups.n + 1

\* What resolve returns for a cached link.
ResolveGives(link) == IF link = "False" THEN "None" ELSE link

\* A link, or False, is cached for exactly the names for which _get_link
\* has returned, which it has done at most once for each; a page is cached
\* exactly if get_data has returned it, which it has done at most once.
CachedOnce ==
    /\ \A full \in FullNames :
          /\ lookups.returned[full] <= 1
          /\ full \in DOMAIN link_cache <=> lookups.returned[full] = 1
    /\ \A link \in DOMAIN Html :
          /\ lookups.fetched[link] <= 1
          /\ link \in DOMAIN page_cache <=> lookups.fetched[link] = 1

\* A resolve call for a name that is cached does not invoke _get_link,
\* calls get_data for no page and returns the cached link, None if False
\* is cached; a call for a name that is not cached invokes _get_link, and
\* caches nothing if that raises.
ServedFromCache ==
    IsResolve =>
        LET call == lookups'.last
        IN  IF call.full \in DOMAIN link_cache
            THEN /\ ~call.invoked
                 /\ call.raised = "none"
                 /\ call.result = ResolveGives(link_cache[call.full])
                 /\ lookups'.get_data = lookups.get_data
                 /\ link_cache' = link_cache /\ page_cache' = page_cache
            ELSE /\ call.invoked
                 /\ call.raised # "none" =>
                       (link_cache' = link_cache /\ page_cache' = page_cache)

\* C19 as amended: _get_link returns at most once for each full name, also
\* for names that do not resolve (False is cached and every later call
\* returns None without a lookup), and get_data returns each page at most
\* once; a lookup that raises caches nothing and is made again by the next
\* resolve call for that name.
Thm_C19 == []CachedOnce /\ [][ServedFromCache]_vars

\* The third resolve call: np.linalg.inv, whose page does not hold the
\* name, was looked up once, after a first lookup for np.linalg.norm had
\* fetched the page; the call returns None from the cache.
Wit_C19 ==
    /\ lookups.n = 3
    /\ lookups.last.full = <<"np", "linalg", "inv">>
    /\ ~lookups.last.invoked
    /\ lookups.last.result = "None"
    /\ link_cache[<<"np", "linalg", "inv">>] = "False"
    /\ lookups.get_link[<<"np", "linalg", "inv">>] = 1
    /\ <<"np", "linalg", "norm">> \in DOMAIN link_cache
    /\ lookups.get_data["linalg.html"] = 1

(***************************************************************************)
(* Claims about line_count_sort, checked under SpecSort.                   *)
(***************************************************************************)
\* How often x occurs in the sequence s.
Occurrences(s, x) == Cardinality({i \in DOMAIN s : s[i] = x})

\* The number of code lines of a file of the call.
CodeLinesOf(name) == args.counts[name][2] - args.counts[name][1]

\* The file names of the calls in ascending order: 'B.py' < 'a.py' <
\* 'ab.py'.
NameRank == (BigBPy :> 1) @@ (APy :> 2) @@ (AbPy :> 3)

\* C21: line_count_sort returns the entries of file_list that end in
\* '.py', each as often as it occurs there, by non-decreasing number of
\* code lines and, where that is equal, by ascending name; [] when no
\* entry ends in '.py'.
Thm_C21 ==
    Done("line_count_sort") =>
        /\ ret.raised = "none"
        /\ \A name \in SortNames :
              Occurrences(ret.value, name) =
                 IF endswith(name, <<".", "p", "y">>)
                 THEN Occurrences(args.file_list, name) ELSE 0
        /\ \A i \in DOMAIN ret.value : \A j \in DOMAIN ret.value :
              i < j =>
                 \/ CodeLinesOf(ret.value[i]) < CodeLinesOf(ret.value[j])
                 \/ /\ CodeLinesOf(ret.value[i]) = CodeLinesOf(ret.value[j])
                    /\ NameRank[ret.value[i]] <= NameRank[ret.value[j]]
        /\ (\A i \in DOMAIN args.file_list :
               ~endswith(args.file_list[i], <<".", "p", "y">>))
              => ret.value = <<>>

\* The call on ['ab.py', 'copy', 'a.py'], with two code lines in each of
\* the two examples, has returned ['a.py', 'ab.py'].
Wit_C21 ==
    /\ Done("line_count_sort")
    /\ args.file_list = <<AbPy, Copy, APy>>
    /\ CodeLinesOf(AbPy) = 2 /\ CodeLinesOf(APy) = 2
    /\ ret.value = <<APy, AbPy>>

(***************************************************************************)
(* Claims about make_thumbnail, checked under SpecThumb.                   *)
(***************************************************************************)
\* The whole number sc is size_in times num / den, rounded.
ScaledBy(sc, size_in, num, den) ==
    LET diff == 2 * (sc * den - size_in * num)
    IN  diff <= den /\ -diff <= den

\* C22: for positive sizes, make_thumbnail applies one scale, width /
\* width_in or height / height_in, to both dimensions; the scaled size is
\* within the target size and meets it in one dimension at least, and the
\* position of the paste is not negative.
Thm_C22 ==
    Done("make_thumbnail") =>
        LET r == ret.value
        IN  /\ ret.raised = "none"
            /\ \/ /\ ScaledBy(r.width_sc, args.width_in, args.width,
                              args.width_in)
                  /\ ScaledBy(r.height_sc, args.height_in, args.width,
                              args.width_in)
               \/ /\ ScaledBy(r.width_sc, args.width_in, args.height,
                              args.height_in)
                  /\ ScaledBy(r.height_sc, args.height_in, args.height,
                              args.height_in)
            /\ r.width_sc <= args.width
            /\ r.height_sc <= args.height
            /\ r.width_sc = args.width \/ r.height_sc = args.height
            /\ r.pos_insert[1] >= 0
            /\ r.pos_insert[2] >= 0

\* An image of 2 x 4 pixels in a thumbnail of 5 x 3: the height decides,
\* the scale is 3/4, the width 1.5 is rounded to 2 and pasted at (1, 0).
Wit_C22 ==
    /\ Done("make_thumbnail")
    /\ args.width_in = 2 /\ args.height_in = 4
    /\ args.width = 5 /\ args.height = 3
    /\ ret.value.width_sc = 2 /\ ret.value.height_sc = 3
    /\ ret.value.pos_insert = <<1, 0>>

\* The number of start tags minus the number of end tags at the positions
\* from..to of s.
TagDepth(s, start_tag, end_tag, from, to) ==
    Cardinality({p \in from..to : At(s, p) = start_tag})
        - Cardinality({p \in from..to : At(s, p) = end_tag})

\* The end tag at position m closes the start tag at position start: the
\* tags between them are balanced and no earlier position balances them.
MatchingEnd(s, start_tag, end_tag, start, m) ==
    /\ start < m
    /\ At(s, m) = end_tag
    /\ TagDepth(s, start_tag, end_tag, start, m) = 0
    /\ \A q \in start..(m - 1) : TagDepth(s, start_tag, end_tag, start, q) > 0

FirstTag(s, start_tag, start) ==
    /\ At(s, start) = start_tag
    /\ \A q \in 0..(start - 1) : At(s, q) # start_tag

\* C23: _select_block raises ValueError when the string has no start_tag,
\* and when the first start_tag has a matching end_tag (nested start and end
\* tags counted, the two tags being different characters) it returns exactly
\* the text strictly between that start_tag and its matching end_tag.
Thm_C23 ==
    Done("_select_block") =>
        /\ (\A p \in 0..(Len(args.str_in) - 1) :
                At(args.str_in, p) # args.start_tag)
              => ret = [raised |-> "ValueError"]
        /\ args.start_tag # args.end_tag =>
              \A start, m \in 0..(Len(args.str_in) - 1) :
                  /\ FirstTag(args.str_in, args.start_tag, start)
                  /\ MatchingEnd(args.str_in, args.start_tag, args.end_tag,
                                 start, m)
                  => ret = Returned(SubSeq(args.str_in, start + 2, m))

\* The block of "{{a}}" between '{' and '}' is "{a}": the first '}' closes
\* the inner block, the second one the selected block.
Wit_C23 ==
    /\ Done("_select_block")
    /\ args = [str_in |-> <<"{", "{", "a", "}", "}">>,
               start_tag |-> "{", end_tag |-> "}"]
    /\ ret = Returned(<<"{", "a", "}">>)


\* The loop of frame after goes on at a later ':' than that of frame
\* before, or it has ended.
LaterColon(before, after) ==
    \/ after.broke
    \/ after.pos < 0
    \/ after.pos > before.pos

\* A step of _parse_dict_recursive: an iteration that ends in the running
\* call, or in the caller when a recursive call returns, leaves the loop or
\* moves pos forward; a recursive call gets a shorter string than its caller
\* has.
Advances ==
    /\ (pc = "loop" /\ pc' = "loop" /\ Len(frames') = Len(frames))
          => LaterColon(frames[Len(frames)], frames'[Len(frames)])
    /\ (pc = "loop" /\ pc' = "loop" /\ Len(frames') = Len(frames) - 1)
          => LaterColon(frames[Len(frames')], frames'[Len(frames')])
    /\ (pc = "loop" /\ pc' = "loop" /\ Len(frames') = Len(frames) + 1)
          => Len(frames'[Len(frames')].dict_str)
                 < Len(frames[Len(frames)].dict_str)

\* The call has returned a dictionary with non-empty keys or has raised one
\* of the three exceptions.
ParseOutcome ==
    Done("_parse_dict_recursive") =>
        \/ ret.raised \in {"ValueError", "RuntimeError", "IndexError"}
        \/ /\ ret.raised = "none"
           /\ \A key \in DOMAIN ret.value : Len(key) > 0

\* C24: _parse_dict_recursive terminates on every input string: each
\* iteration of its loop strictly advances the position of the next ':'
\* examined, each recursive call receives a strictly shorter string, and the
\* call ends by returning a dictionary or raising ValueError, RuntimeError or
\* an index error.
Thm_C24 == [][Advances]_vars /\ []ParseOutcome /\ <>(pc = "done")

\* 'a:{1:[1,a]},"1":[a]' has been parsed with two iterations and one
\* recursive call.
Wit_C24 ==
    /\ Done("_parse_dict_recursive")
    /\ Len(args.dict_str) = 19
    /\ ret = Returned((<<"a">> :> (<<"1">> :> <<1, <<"a">>>>))
                          @@ (<<"1">> :> <<<<"a">>>>))

=============================================================================
